---- MODULE Spec2Model ----
(***************************************************************************)
(* Model of the resume shortlisting engine: the match scorer and the      *)
(* candidate ranker of job_resume_matcher.py, the format dispatch of      *)
(* resume_parser.py and the parallel batch parse of bulk_upload.py.       *)
(*                                                                         *)
(* Numbers.  Python floats are modelled in fixed point: a score s is the  *)
(* integer s * Scale (four decimals), a number of years y is the integer  *)
(* y * Tenth (total_experience_years is rounded to one decimal).          *)
(*                                                                         *)
(* Strings.  A Python string is a sequence of pieces; a piece is a word   *)
(* or the separator " ", and the empty string is <<>>.  Lists that the    *)
(* code converts with set() are modelled as sets.                         *)
(***************************************************************************)
EXTENDS Integers, Sequences, FiniteSets, TLC

VARIABLES
    \* ---- match scorer (JobResumeMatcher.calculate_match_score)
    resume,          \* the resume record handed to the scorer
    job,             \* the job record handed to the scorer
    scores,          \* the scores dictionary returned
    spc,             \* "ready" before the call, "scored" after it
    \* ---- candidate ranker (CandidateRanker.rank_candidates)
    resumes,         \* the list of resume records handed to the ranker
    job_description, \* the raw job text
    top_n,           \* {} for None, else {n}
    ranked,          \* the list returned
    rpc,             \* "idle", "ready" before the call, "ranked" after it
    \* ---- format dispatch (ResumeParser.parse_resume)
    file_path,       \* the file handed to parse_resume
    parsed,          \* what the call produced: a dictionary or an exception
    extractions,     \* the text extractors invoked so far, in call order
    ppc,             \* "idle", "ready" before the call, "parsed" after it
    \* ---- batch parse (process_bulk_resumes, BulkResumeProcessor)
    uploaded_zip,    \* the uploaded archive
    file_paths,      \* the list extract_zip returns
    max_workers,     \* size of the thread pool
    futures,         \* per file: "pending", "running" or "finished"
    outcomes,        \* per file: what its future holds once finished
    completed,       \* finished futures that as_completed has yet to yield
    results,         \* the results dictionary of parse_bulk_resumes
    processed,       \* the counter of the collecting loop
    bpc,             \* position of process_bulk_resumes
    \* ---- one CandidateRanker instance used for several rankings
    vectorizer,      \* the TfidfVectorizer of the instance's matcher
    reference,       \* the inputs whose ranking is repeated
    first_ranked,    \* {} or {what the first ranking of reference returned}
    calls,           \* rank_candidates calls made on the instance
    between,         \* rankings of other inputs since reference was first ranked
    \* ---- experience extraction (ResumeParser._extract_experience)
    raw_entries,       \* the work entries with their dates, before durations
    parsed_experience, \* the entries with their duration strings
    total_experience, \* what _calculate_total_experience returns for them
    xpc,              \* "idle", "ready" before the durations, "parsed" after
    \* ---- application session (st.session_state of app2.py)
    parsed_resumes,          \* st.session_state.parsed_resumes
    session_job_description, \* st.session_state.job_description
    ranked_candidates,       \* st.session_state.ranked_candidates
    apc,                     \* the last handler that ran, "start" before any
    \* ---- text handed to the parsers (ResumeParser._parse_text,
    \*      JobDescriptionParser._extract_job_title)
    document,        \* the text and the parser it is handed to
    sections,        \* what _split_into_sections returns for it
    contact_name,    \* what _extract_name returns for it
    job_title,       \* what _extract_job_title returns for it
    work_entries,    \* what _extract_experience returns for it
    job_skills,      \* what JobDescriptionParser._extract_skills returns for it
    tpc,             \* "idle", "ready" before the parser ran, "parsed" after
    \* ---- environment
    clock            \* datetime.now(), as a tick counter

scoreVars == <<resume, job, scores, spc>>
rankVars == <<resumes, job_description, top_n, ranked, rpc>>
parseVars == <<file_path, parsed, extractions, ppc>>
bulkVars == <<uploaded_zip, file_paths, max_workers, futures, outcomes,
              completed, results, processed, bpc>>
instanceVars == <<vectorizer, reference, first_ranked, calls, between>>
sessionVars == <<parsed_resumes, session_job_description, ranked_candidates,
                 apc>>
experienceVars == <<raw_entries, parsed_experience, total_experience, xpc>>
textVars == <<document, sections, contact_name, job_title, work_entries,
              job_skills, tpc>>
vars == <<scoreVars, rankVars, parseVars, bulkVars, instanceVars, sessionVars,
          experienceVars, textVars, clock>>

(***************************************************************************)
(* Fixed point                                                             *)
(***************************************************************************)
Scale == 100 * 100
Tenth == 2 * 5
Hundred == 100 * Scale

Max2(a, b) == IF a >= b THEN a ELSE b
Min2(a, b) == IF a <= b THEN a ELSE b

\* n / d rounded to the nearest integer, ties to even (Python's round)
RoundDiv(n, d) ==
    LET q == n \div d
        r == n % d
    IN  IF 2 * r > d THEN q + 1
        ELSE IF 2 * r < d THEN q
        ELSE IF q % 2 = 0 THEN q ELSE q + 1

\* round(x, 2) of a score: the nearest hundredth
Round2(x) == RoundDiv(x, Scale \div 100) * (Scale \div 100)

RECURSIVE SqrtSearch(_, _, _)
SqrtSearch(n, lo, hi) ==
    IF lo >= hi THEN lo
    ELSE LET mid == (lo + hi + 1) \div 2
         IN  IF mid * mid <= n THEN SqrtSearch(n, mid, hi)
             ELSE SqrtSearch(n, lo, mid - 1)

\* floor of the square root
Isqrt(n) == SqrtSearch(n, 0, Min2(n, 46340))

(***************************************************************************)
(* Strings                                                                 *)
(***************************************************************************)
Space == " "

\* str.lower(): the words of the model's vocabulary that are not already
\* lower case, each with its lower-case form
LowerPairs ==
    { <<"Python", "python">>, <<"PYTHON", "python">>, <<"SQL", "sql">>,
      <<"Sql", "sql">>, <<"AWS", "aws">>, <<"Docker", "docker">>,
      <<"Java", "java">>, <<"The", "the">>, <<"Developer", "developer">>,
      <<"C", "c">>, <<"Cloud", "cloud">>,
      <<"Bachelor", "bachelor">>, <<"Master", "master">>, <<"PhD", "phd">>,
      <<"Ph.D", "ph.d">>, <<"B.Tech", "b.tech">>, <<"M.Tech", "m.tech">>,
      <<"B.Sc", "b.sc">>, <<"M.Sc", "m.sc">>, <<"MBA", "mba">>,
      <<"BBA", "bba">>, <<"B.E.", "b.e.">>, <<"M.E.", "m.e.">>,
      <<"B.S.", "b.s.">>, <<"M.S.", "m.s.">>, <<"Diploma", "diploma">>,
      <<"Masters", "masters">>, <<"Bachelors", "bachelors">>,
      <<"Phd", "phd">>, <<"Doctorate", "doctorate">>, <<"Mba", "mba">>,
      <<"B.E", "b.e">>, <<"Senior", "senior">>, <<"Position", "position">>,
      <<"Engineer", "engineer">>, <<"JavaScript", "javascript">>,
      <<"MySQL", "mysql">>,
      <<"High School", "high school">>, <<"Not Specified", "not specified">>,
      <<".PDF", ".pdf">>, <<".Docx", ".docx">>, <<".DOCX", ".docx">>,
      <<".DOC", ".doc">>,
      <<"Present", "present">>, <<"Current", "current">>, <<"Now", "now">>,
      <<"Ongoing", "ongoing">>, <<"Jan", "jan">>, <<"Dec", "dec">>,
      <<"Experience", "experience">>, <<"Education", "education">>,
      <<"About", "about">>, <<"Me", "me">>, <<"Built", "built">>,
      <<"Led", "led">>, <<"State", "state">>,
      <<"University", "university">>, <<"Asha", "asha">>, <<"Rao", "rao">>,
      <<"Resume", "resume">>, <<"Acme", "acme">> }

LowerMap ==
    [w \in { p[1] : p \in LowerPairs } |->
        (CHOOSE p \in LowerPairs : p[1] = w)[2]]

Lower(w) == IF w \in DOMAIN LowerMap THEN LowerMap[w] ELSE w

LowerStr(s) == [i \in 1..Len(s) |-> Lower(s[i])]

\* skill.lower(), for the skills of the two parsers that are no words of the
\* texts of the model
SkillLowerPairs ==
    { <<"C++", "c++">>, <<"C#", "c#">>, <<"Ruby", "ruby">>, <<"Go", "go">>,
      <<"Rust", "rust">>, <<"PHP", "php">>, <<"React", "react">>,
      <<"Angular", "angular">>, <<"Vue", "vue">>, <<"Node.js", "node.js">>,
      <<"Django", "django">>, <<"Flask", "flask">>, <<"Spring", "spring">>,
      <<"PostgreSQL", "postgresql">>, <<"MongoDB", "mongodb">>,
      <<"Redis", "redis">>, <<"Cassandra", "cassandra">>,
      <<"Azure", "azure">>, <<"GCP", "gcp">>, <<"Kubernetes", "kubernetes">>,
      <<"Jenkins", "jenkins">>, <<"CI/CD", "ci/cd">>,
      <<"Machine Learning", "machine learning">>,
      <<"Deep Learning", "deep learning">>, <<"TensorFlow", "tensorflow">>,
      <<"PyTorch", "pytorch">>, <<"NLP", "nlp">>, <<"Git", "git">>,
      <<"Agile", "agile">>, <<"Scrum", "scrum">>, <<"REST API", "rest api">>,
      <<"GraphQL", "graphql">>, <<"Microservices", "microservices">>,
      <<"HTML", "html">>, <<"CSS", "css">>, <<"TypeScript", "typescript">>,
      <<"Swift", "swift">>, <<"Kotlin", "kotlin">>, <<"Scala", "scala">>,
      <<"R", "r">>, <<"MATLAB", "matlab">>, <<"Vue.js", "vue.js">>,
      <<"Express", "express">>, <<"FastAPI", "fastapi">>,
      <<"Spring Boot", "spring boot">>, <<"ASP.NET", "asp.net">>,
      <<"jQuery", "jquery">>, <<"Oracle", "oracle">>,
      <<"SQL Server", "sql server">>, <<"DynamoDB", "dynamodb">>,
      <<"Neo4j", "neo4j">>, <<"Elasticsearch", "elasticsearch">>,
      <<"Keras", "keras">>, <<"Computer Vision", "computer vision">>,
      <<"OpenCV", "opencv">>, <<"NLTK", "nltk">>, <<"spaCy", "spacy">>,
      <<"Google Cloud", "google cloud">>, <<"Terraform", "terraform">>,
      <<"Ansible", "ansible">>, <<"GitHub", "github">>,
      <<"GitLab", "gitlab">>, <<"Data Analysis", "data analysis">>,
      <<"Pandas", "pandas">>, <<"NumPy", "numpy">>,
      <<"Matplotlib", "matplotlib">>, <<"Seaborn", "seaborn">>,
      <<"Tableau", "tableau">>, <<"Power BI", "power bi">>,
      <<"Apache Spark", "apache spark">>, <<"Hadoop", "hadoop">>,
      <<"ETL", "etl">>, <<"Leadership", "leadership">>,
      <<"Communication", "communication">>,
      <<"Problem Solving", "problem solving">>, <<"Team Work", "team work">>,
      <<"Project Management", "project management">>,
      <<"Critical Thinking", "critical thinking">> }

SkillLowerMap ==
    [w \in { p[1] : p \in SkillLowerPairs } |->
        (CHOOSE p \in SkillLowerPairs : p[1] = w)[2]]

SkillLower(skill) ==
    IF skill \in DOMAIN SkillLowerMap THEN SkillLowerMap[skill]
    ELSE Lower(skill)

RangeOf(q) == { q[i] : i \in 1..Len(q) }

\* English stop words among the words of the model's vocabulary
StopWords == {"the", "and", "of"}

\* sep.join(parts): the parts with sep between consecutive ones
RECURSIVE Join(_, _)
Join(sep, parts) ==
    IF parts = <<>> THEN <<>>
    ELSE IF Len(parts) = 1 THEN parts[1]
    ELSE parts[1] \o <<sep>> \o Join(sep, Tail(parts))

\* the words of a string, in order (str.split())
WordsOf(s) == SelectSeq(s, LAMBDA p : p # Space)

\* 'needle in haystack' for a needle without blanks: it lies inside one word.
\* Proper containments among the words of the model's vocabulary, each with
\* the offset of the first occurrence of the needle in the word.
ProperSubstring ==
    { <<"java", "javascript", 0>>, <<"sql", "mysql", 2>>, <<"c", "docker", 2>>,
      <<"c", "javascript", 6>>, <<"c", "cloud", 0>>,
      <<"master", "masters", 0>>, <<"bachelor", "bachelors", 0>>,
      <<"role", "roles", 0>>, <<"b.e", "b.e.", 0>> }

ProperPairs == { <<t[1], t[2]>> : t \in ProperSubstring }

InWord(needle, w) == needle = w \/ <<needle, w>> \in ProperPairs

\* offset of the first occurrence of needle in the word w that contains it
OffsetInWord(needle, w) ==
    IF needle = w THEN 0
    ELSE (CHOOSE t \in ProperSubstring : t[1] = needle /\ t[2] = w)[3]

InStr(needle, s) == \E i \in 1..Len(s) : InWord(needle, s[i])

(***************************************************************************)
(* Job description parser: JobDescriptionParser                            *)
(***************************************************************************)
NL == "\n"

\* a rule of 120 dashes, as found between the blocks of a job posting
Dashes == "------"

\* len() of the pieces of the model's vocabulary, lower or upper case
CharLenPairs ==
    { <<" ", 1>>, <<"\n", 1>>, <<"------", 120>>,
      <<"python", 6>>, <<"sql", 3>>, <<"java", 4>>, <<"aws", 3>>,
      <<"docker", 6>>, <<"javascript", 10>>, <<"mysql", 5>>, <<"c", 1>>,
      <<"cloud", 5>>, <<"senior", 6>>, <<"developer", 9>>, <<"the", 3>>,
      <<"and", 3>>, <<"of", 2>>, <<"required", 8>>, <<"preferred", 9>>,
      <<"must have", 9>>, <<"nice to have", 12>>, <<"3+", 2>>, <<"6+", 2>>,
      <<"1-2", 3>>, <<"3-0", 3>>, <<"5", 1>>, <<"years", 5>>, <<"fresher", 7>>,
      <<"bachelor", 8>>, <<"masters", 7>>, <<"phd", 3>>, <<"position", 8>>,
      <<"experience", 10>>, <<"roles", 5>>, <<"team", 4>>, <<"engineer", 8>>,
      <<"role", 4>>, <<"education", 9>>, <<"about", 5>>, <<"me", 2>>,
      <<"built", 5>>, <<"pipelines", 9>>, <<"led", 3>>, <<"analytics", 9>>,
      <<"state", 5>>, <<"university", 10>>, <<"asha", 4>>, <<"rao", 3>>,
      <<"resume", 6>>, <<"curriculum", 10>>, <<"vitae", 5>>,
      <<"at", 2>>, <<"acme", 4>>, <<"|", 1>>, <<"-", 1>>, <<",", 1>>,
      <<"jan", 3>>, <<"2019", 4>>, <<"2020", 4>>, <<"2022", 4>>,
      <<"01/02/2020", 10>>, <<"01/02/20", 8>>, <<"present", 7>>,
      <<"current", 7>>, <<"now", 3>>, <<"ongoing", 7>>,
      <<"gcp", 3>>, <<"vue", 3>>, <<"graphql", 7>> }

CharLenMap ==
    [w \in { t[1] : t \in CharLenPairs } |->
        (CHOOSE t \in CharLenPairs : t[1] = w)[2]]

CharLen(p) == CharLenMap[Lower(p)]

\* len(line.split()) of a piece: the words it holds
WordCount(p) ==
    CASE p \in {Space, NL} -> 0
      [] Lower(p) = "must have" -> 2
      [] Lower(p) = "nice to have" -> 3
      [] OTHER -> 1

RECURSIVE StrLen(_)
StrLen(s) == IF s = <<>> THEN 0 ELSE CharLen(s[1]) + StrLen(Tail(s))

RECURSIVE StrWords(_)
StrWords(s) == IF s = <<>> THEN 0 ELSE WordCount(s[1]) + StrWords(Tail(s))

\* the character offset of every piece of s
RECURSIVE Offsets(_)
Offsets(s) ==
    IF s = <<>> THEN <<>>
    ELSE LET front == SubSeq(s, 1, Len(s) - 1)
             before == Offsets(front)
         IN  IF front = <<>> THEN <<0>>
             ELSE Append(before, before[Len(before)] + CharLen(front[Len(front)]))

\* text.split('\n')
RECURSIVE SplitLines(_)
SplitLines(s) ==
    IF \A i \in 1..Len(s) : s[i] # NL THEN <<s>>
    ELSE LET k == CHOOSE i \in 1..Len(s) :
                      s[i] = NL /\ \A h \in 1..(i - 1) : s[h] # NL
         IN  <<SubSeq(s, 1, k - 1)>> \o SplitLines(SubSeq(s, k + 1, Len(s)))

\* line.strip()
RECURSIVE Strip(_)
Strip(s) ==
    IF s = <<>> THEN s
    ELSE IF s[1] \in {Space, NL} THEN Strip(Tail(s))
    ELSE IF s[Len(s)] \in {Space, NL} THEN Strip(SubSeq(s, 1, Len(s) - 1))
    ELSE s

TitleIndicators == {"position", "role", "job title", "hiring for"}

\* _extract_job_title
RECURSIVE TitleFrom(_)
TitleFrom(lines) ==
    IF lines = <<>> THEN <<"Position Not Specified">>
    ELSE LET line == Strip(lines[1])
         IN  IF line # <<>> /\ StrLen(line) < 100
                /\ \/ \E k \in TitleIndicators : InStr(k, LowerStr(line))
                   \/ StrWords(line) <= 10 /\ StrLen(line) > 10
             THEN line
             ELSE TitleFrom(Tail(lines))

ExtractJobTitle(text) ==
    LET lines == SplitLines(text)
    IN  TitleFrom(SubSeq(lines, 1, Min2(5, Len(lines))))

\* the digit groups the first experience pattern captures in a number piece:
\* (\d+)\+?(?:to|\-)?(\d+)?  gives <<min, {max}>>
NumberPieces ==
    { <<"3+", 3, {}>>, <<"6+", 6, {}>>, <<"1-2", 1, {2}>>,
      <<"5", 5, {}>>, <<"3-0", 3, {0}>> }

YearUnits == {"years", "year", "yrs", "yr"}

\* the pattern matches at piece i: a number piece, blanks, a unit
ExperienceMatchAt(s, i) ==
    /\ \E t \in NumberPieces : t[1] = s[i]
    /\ \E u \in (i + 1)..Len(s) :
          /\ s[u] \in YearUnits
          /\ \A h \in (i + 1)..(u - 1) : s[h] \in {Space, NL}

FresherTerms == {"fresher", "entry level", "0 years", "no experience"}

\* _extract_experience: <<min_experience, max_experience>>, the maximum
\* being {} for None
ExtractExperience(text) ==
    LET s == LowerStr(text)
        hits == { i \in 1..Len(s) : ExperienceMatchAt(s, i) }
    IN  IF hits # {}
        THEN LET first == CHOOSE i \in hits : \A h \in hits : i <= h
                 t == CHOOSE n \in NumberPieces : n[1] = s[first]
             IN  <<t[2], t[3]>>
        ELSE IF \E f \in FresherTerms : InStr(f, s) THEN <<0, {2}>>
        ELSE <<0, {}>>

\* the all_skills list of _extract_skills, restricted to one-word skills of
\* the model's vocabulary
\* all_skills
AllSkills ==
    <<"Python", "Java", "JavaScript", "C++", "C#", "Ruby", "Go", "Rust",
      "PHP", "React", "Angular", "Vue", "Node.js", "Django", "Flask",
      "Spring", "SQL", "MySQL", "PostgreSQL", "MongoDB", "Redis",
      "Cassandra", "AWS", "Azure", "GCP", "Docker", "Kubernetes", "Jenkins",
      "CI/CD", "Machine Learning", "Deep Learning", "TensorFlow", "PyTorch",
      "NLP", "Git", "Agile", "Scrum", "REST API", "GraphQL", "Microservices",
      "HTML", "CSS", "TypeScript", "Swift", "Kotlin", "Scala">>

\* the skills that \b cannot follow, as they end with a character that is no
\* letter: they are found only where a letter or digit follows them, and no
\* piece of the model's vocabulary continues them so
NoWordEnd == {"c++", "c#"}

RequiredTerms == {"required", "must have", "mandatory", "essential"}
PreferredTerms == {"preferred", "nice to have", "plus", "bonus"}

\* 'term in context' where context is the characters lo..hi-1 of s
TermInWindow(terms, s, off, lo, hi) ==
    \E i \in 1..Len(s) :
        /\ \E k \in terms : InWord(k, s[i])
        /\ off[i] >= lo
        /\ off[i] + CharLen(s[i]) <= hi

\* re.search(r'\b' + re.escape(skill.lower()) + r'\b', text_lower)
SkillNamed(skill, s) ==
    /\ SkillLower(skill) \notin NoWordEnd
    /\ \E i \in 1..Len(s) : s[i] = SkillLower(skill)

\* _extract_skills: <<required_skills, preferred_skills>> as sequences in
\* the order of all_skills
RECURSIVE SkillsFrom(_, _, _, _)
SkillsFrom(s, off, len, skills) ==
    IF skills = <<>> THEN << <<>>, <<>> >>
    ELSE LET skill == skills[1]
             low == SkillLower(skill)
             rest == SkillsFrom(s, off, len, Tail(skills))
         IN  IF SkillNamed(skill, s)
             THEN LET at == CHOOSE i \in 1..Len(s) :
                                /\ InWord(low, s[i])
                                /\ \A h \in 1..(i - 1) : ~InWord(low, s[h])
                      skill_index == off[at] + OffsetInWord(low, s[at])
                      lo == Max2(0, skill_index - 100)
                      hi == Min2(len, skill_index + 100)
                  IN  IF TermInWindow(RequiredTerms, s, off, lo, hi)
                      THEN << <<skill>> \o rest[1], rest[2] >>
                      ELSE IF TermInWindow(PreferredTerms, s, off, lo, hi)
                      THEN << rest[1], <<skill>> \o rest[2] >>
                      ELSE << <<skill>> \o rest[1], rest[2] >>
             ELSE rest

\* the loop over all_skills does something only for the skills the text names
ExtractSkills(text) ==
    LET s == LowerStr(text)
    IN  SkillsFrom(s, Offsets(s), StrLen(s),
                   SelectSeq(AllSkills, LAMBDA skill : SkillNamed(skill, s)))

MustHaveTerms == {"must have", "required", "essential", "mandatory"}
NiceToHaveTerms == {"nice to have", "preferred", "plus", "bonus", "optional"}

\* the match of  (?:terms)[\s\S]{0,500} : from the first term on, the
\* pieces that lie within 500 characters after it; <<>> without a match
SectionAfter(terms, s) ==
    LET hits == { i \in 1..Len(s) : \E k \in terms : InWord(k, s[i]) }
        off == Offsets(s)
    IN  IF hits = {} THEN <<>>
        ELSE LET first == CHOOSE i \in hits : \A h \in hits : i <= h
                 limit == off[first] + CharLen(s[first]) + 500
                 last == CHOOSE e \in first..Len(s) :
                             /\ off[e] + CharLen(s[e]) <= limit
                             /\ \A h \in (e + 1)..Len(s) :
                                    off[h] + CharLen(s[h]) > limit
             IN  SubSeq(s, first, last)

\* _extract_must_have_skills, _extract_nice_to_have_skills: list(set(...))
ExtractMustHaveSkills(text) ==
    RangeOf(ExtractSkills(SectionAfter(MustHaveTerms, LowerStr(text)))[1])

ExtractNiceToHaveSkills(text) ==
    RangeOf(ExtractSkills(SectionAfter(NiceToHaveTerms, LowerStr(text)))[2])

\* the keys of JobDescriptionParser.education_levels in insertion order
EducationKeys ==
    <<"phd", "ph.d", "doctorate", "masters", "master", "m.tech", "m.sc", "mba",
      "bachelors", "bachelor", "b.tech", "b.sc", "b.e", "diploma", "high school">>

\* str.title() of the keys
TitleCase(k) ==
    IF \E p \in LowerPairs : p[2] = k /\ p[1] \in
           {"Phd", "Ph.D", "Doctorate", "Masters", "Master", "M.Tech", "M.Sc",
            "Mba", "Bachelors", "Bachelor", "B.Tech", "B.Sc", "B.E", "Diploma",
            "High School"}
    THEN (CHOOSE p \in LowerPairs : p[2] = k /\ p[1] \in
           {"Phd", "Ph.D", "Doctorate", "Masters", "Master", "M.Tech", "M.Sc",
            "Mba", "Bachelors", "Bachelor", "B.Tech", "B.Sc", "B.E", "Diploma",
            "High School"})[1]
    ELSE k

\* JobDescriptionParser.education_levels
ParserEducationLevels ==
    [k \in RangeOf(EducationKeys) |->
        CASE k \in {"phd", "ph.d", "doctorate"} -> 5
          [] k \in {"masters", "master", "m.tech", "m.sc", "mba"} -> 4
          [] k \in {"bachelors", "bachelor", "b.tech", "b.sc", "b.e"} -> 3
          [] k = "diploma" -> 2
          [] k = "high school" -> 1]

\* _extract_education: the first key, in table order, of the highest level
\* among the keys found in the lower-cased text
ExtractEducation(text) ==
    LET s == LowerStr(text)
        found == { i \in 1..Len(EducationKeys) : InStr(EducationKeys[i], s) }
    IN  IF found = {} THEN "Not Specified"
        ELSE LET best == CHOOSE i \in found :
                     \A h \in found :
                         \/ ParserEducationLevels[EducationKeys[h]]
                                < ParserEducationLevels[EducationKeys[i]]
                         \/ /\ ParserEducationLevels[EducationKeys[h]]
                                  = ParserEducationLevels[EducationKeys[i]]
                            /\ i <= h
             IN  TitleCase(EducationKeys[best])

\* words of the model's vocabulary that spaCy tags NOUN or PROPN
Nouns ==
    {"python", "sql", "java", "aws", "docker", "javascript", "mysql", "cloud",
     "developer", "years", "experience", "position", "bachelor", "masters",
     "phd", "roles", "team", "engineer", "fresher"}

\* _extract_keywords: nouns that are no stop words and longer than 2
\* characters, most frequent first, ties in order of first occurrence,
\* at most top_n of them
RECURSIVE MostCommon(_, _, _)
MostCommon(tokens, left, n) ==
    IF n = 0 \/ left = {} THEN <<>>
    ELSE LET cnt(w) == Cardinality({ i \in 1..Len(tokens) : tokens[i] = w })
             firstAt(w) == CHOOSE i \in 1..Len(tokens) :
                               tokens[i] = w /\ \A h \in 1..(i - 1) : tokens[h] # w
             top == CHOOSE w \in left :
                        \A v \in left :
                            \/ cnt(v) < cnt(w)
                            \/ cnt(v) = cnt(w) /\ firstAt(w) <= firstAt(v)
         IN  <<top>> \o MostCommon(tokens, left \ {top}, n - 1)

TopKeywords == 20

ExtractKeywords(text) ==
    LET tokens == SelectSeq(LowerStr(text),
                            LAMBDA w : /\ w \in Nouns
                                       /\ w \notin StopWords
                                       /\ CharLen(w) > 2)
    IN  MostCommon(tokens, RangeOf(tokens), TopKeywords)

\* parse_job_description
ParseJobDescription(job_text) ==
    LET experience == ExtractExperience(job_text)
        skills == ExtractSkills(job_text)
    IN
    [raw_text |-> job_text,
     title |-> ExtractJobTitle(job_text),
     required_skills |-> skills[1],
     preferred_skills |-> skills[2],
     min_experience |-> experience[1],
     max_experience |-> experience[2],
     education_required |-> ExtractEducation(job_text),
     responsibilities |-> <<>>,
     keywords |-> ExtractKeywords(job_text),
     must_have_skills |-> ExtractMustHaveSkills(job_text),
     nice_to_have_skills |-> ExtractNiceToHaveSkills(job_text)]

(***************************************************************************)
(* Match scorer: JobResumeMatcher                                          *)
(***************************************************************************)
\* SkillsScore with a missing preferred list counted as full coverage
SkillsScore_PreferredVacuous(r, j) ==
    LET resume_skills ==
            UNION { { Lower(s) : s \in r.skills[c] } : c \in DOMAIN r.skills }
        required_skills == { Lower(s) : s \in RangeOf(j.required_skills) }
        preferred_skills == { Lower(s) : s \in RangeOf(j.preferred_skills) }
        all_job_skills == required_skills \cup preferred_skills
        matched_required == resume_skills \cap required_skills
        matched_preferred == resume_skills \cap preferred_skills
        required_score ==
            IF required_skills # {}
            THEN (Cardinality(matched_required) * Hundred)
                     \div Cardinality(required_skills)
            ELSE Hundred
        preferred_score ==
            IF preferred_skills # {}
            THEN (Cardinality(matched_preferred) * Hundred)
                     \div Cardinality(preferred_skills)
            ELSE Hundred
        skills_score ==
            IF required_skills # {}
            THEN (required_score * 8 + preferred_score * 2) \div 10
            ELSE preferred_score
    IN  IF all_job_skills = {}
        THEN [score |-> Hundred, matched |-> {}, missing |-> {}]
        ELSE [score |-> skills_score,
              matched |-> matched_required \cup matched_preferred,
              missing |-> all_job_skills \ resume_skills]

\* SkillsScore whose missing skills leave out the preferred ones
SkillsScore_MissingRequiredOnly(r, j) ==
    LET resume_skills ==
            UNION { { Lower(s) : s \in r.skills[c] } : c \in DOMAIN r.skills }
        required_skills == { Lower(s) : s \in RangeOf(j.required_skills) }
        preferred_skills == { Lower(s) : s \in RangeOf(j.preferred_skills) }
        all_job_skills == required_skills \cup preferred_skills
        matched_required == resume_skills \cap required_skills
        matched_preferred == resume_skills \cap preferred_skills
        required_score ==
            IF required_skills # {}
            THEN (Cardinality(matched_required) * Hundred)
                     \div Cardinality(required_skills)
            ELSE Hundred
        preferred_score ==
            IF preferred_skills # {}
            THEN (Cardinality(matched_preferred) * Hundred)
                     \div Cardinality(preferred_skills)
            ELSE 0
        skills_score ==
            IF required_skills # {}
            THEN (required_score * 8 + preferred_score * 2) \div 10
            ELSE preferred_score
    IN  IF all_job_skills = {}
        THEN [score |-> Hundred, matched |-> {}, missing |-> {}]
        ELSE [score |-> skills_score,
              matched |-> matched_required \cup matched_preferred,
              missing |-> required_skills \ resume_skills]

\* SkillsScore without the early return for a job that names no skill
SkillsScore_NoEarlyReturn(r, j) ==
    LET resume_skills ==
            UNION { { Lower(s) : s \in r.skills[c] } : c \in DOMAIN r.skills }
        required_skills == { Lower(s) : s \in RangeOf(j.required_skills) }
        preferred_skills == { Lower(s) : s \in RangeOf(j.preferred_skills) }
        all_job_skills == required_skills \cup preferred_skills
        matched_required == resume_skills \cap required_skills
        matched_preferred == resume_skills \cap preferred_skills
        required_score ==
            IF required_skills # {}
            THEN (Cardinality(matched_required) * Hundred)
                     \div Cardinality(required_skills)
            ELSE Hundred
        preferred_score ==
            IF preferred_skills # {}
            THEN (Cardinality(matched_preferred) * Hundred)
                     \div Cardinality(preferred_skills)
            ELSE 0
        skills_score ==
            IF required_skills # {}
            THEN (required_score * 8 + preferred_score * 2) \div 10
            ELSE preferred_score
    IN  [score |-> skills_score,
         matched |-> matched_required \cup matched_preferred,
         missing |-> all_job_skills \ resume_skills]

\* SkillsScore where a skill the resume lists under two categories is not
\* counted
SkillsScore_TwiceListedDropped(r, j) ==
    LET resume_skills ==
            { x \in UNION { { Lower(s) : s \in r.skills[c] } :
                                c \in DOMAIN r.skills } :
                Cardinality({ c \in DOMAIN r.skills :
                                x \in { Lower(s) : s \in r.skills[c] } }) = 1 }
        required_skills == { Lower(s) : s \in RangeOf(j.required_skills) }
        preferred_skills == { Lower(s) : s \in RangeOf(j.preferred_skills) }
        all_job_skills == required_skills \cup preferred_skills
        matched_required == resume_skills \cap required_skills
        matched_preferred == resume_skills \cap preferred_skills
        required_score ==
            IF required_skills # {}
            THEN (Cardinality(matched_required) * Hundred)
                     \div Cardinality(required_skills)
            ELSE Hundred
        preferred_score ==
            IF preferred_skills # {}
            THEN (Cardinality(matched_preferred) * Hundred)
                     \div Cardinality(preferred_skills)
            ELSE 0
        skills_score ==
            IF required_skills # {}
            THEN (required_score * 8 + preferred_score * 2) \div 10
            ELSE preferred_score
    IN  IF all_job_skills = {}
        THEN [score |-> Hundred, matched |-> {}, missing |-> {}]
        ELSE [score |-> skills_score,
              matched |-> matched_required \cup matched_preferred,
              missing |-> all_job_skills \ resume_skills]

\* _calculate_skills_score
SkillsScore(r, j) ==
    LET resume_skills ==
            UNION { { Lower(s) : s \in r.skills[c] } : c \in DOMAIN r.skills }
        required_skills == { Lower(s) : s \in RangeOf(j.required_skills) }
        preferred_skills == { Lower(s) : s \in RangeOf(j.preferred_skills) }
        all_job_skills == required_skills \cup preferred_skills
        matched_required == resume_skills \cap required_skills
        matched_preferred == resume_skills \cap preferred_skills
        required_score ==
            IF required_skills # {}
            THEN (Cardinality(matched_required) * Hundred)
                     \div Cardinality(required_skills)
            ELSE Hundred
        preferred_score ==
            IF preferred_skills # {}
            THEN (Cardinality(matched_preferred) * Hundred)
                     \div Cardinality(preferred_skills)
            ELSE 0
        skills_score ==
            IF required_skills # {}
            THEN (required_score * 8 + preferred_score * 2) \div 10
            ELSE preferred_score
    IN  IF all_job_skills = {}
        THEN [score |-> Hundred, matched |-> {}, missing |-> {}]
        ELSE [score |-> skills_score,
              matched |-> matched_required \cup matched_preferred,
              missing |-> all_job_skills \ resume_skills]

\* ExperienceScore without the floor at 0 of the gap penalty
ExperienceScore_NoFloor(r, j) ==
    LET resume_exp == r.total_experience_years
        required_exp == j.min_experience * Tenth
        over == { m \in j.max_experience : m # 0 /\ resume_exp > m * Tenth }
    IN  IF j.min_experience = 0
        THEN [score |-> Hundred, gap |-> 0]
        ELSE IF resume_exp >= required_exp
        THEN IF over # {}
             THEN LET max_exp == CHOOSE m \in over : TRUE
                      excess == resume_exp - max_exp * Tenth
                  IN  [score |-> Max2(70 * Scale,
                                      Hundred - (excess * 5 * Scale) \div Tenth),
                       gap |-> 0]
             ELSE [score |-> Hundred, gap |-> 0]
        ELSE LET gap == required_exp - resume_exp
             IN  [score |-> Hundred - (gap * 20 * Scale) \div Tenth,
                  gap |-> gap]

\* ExperienceScore that gives a resume without experience the score 0
\* before it looks at the requirement
ExperienceScore_NoExperienceZero(r, j) ==
    LET resume_exp == r.total_experience_years
        required_exp == j.min_experience * Tenth
        over == { m \in j.max_experience : m # 0 /\ resume_exp > m * Tenth }
    IN  IF resume_exp = 0
        THEN [score |-> 0, gap |-> required_exp]
        ELSE IF j.min_experience = 0
        THEN [score |-> Hundred, gap |-> 0]
        ELSE IF resume_exp >= required_exp
        THEN IF over # {}
             THEN LET max_exp == CHOOSE m \in over : TRUE
                      excess == resume_exp - max_exp * Tenth
                  IN  [score |-> Max2(70 * Scale,
                                      Hundred - (excess * 5 * Scale) \div Tenth),
                       gap |-> 0]
             ELSE [score |-> Hundred, gap |-> 0]
        ELSE LET gap == required_exp - resume_exp
             IN  [score |-> Max2(0, Hundred - (gap * 20 * Scale) \div Tenth),
                  gap |-> gap]

\* _calculate_experience_score; max_experience is {} for None, else {M}
ExperienceScore(r, j) ==
    LET resume_exp == r.total_experience_years
        required_exp == j.min_experience * Tenth
        over == { m \in j.max_experience : m # 0 /\ resume_exp > m * Tenth }
    IN  IF j.min_experience = 0
        THEN [score |-> Hundred, gap |-> 0]
        ELSE IF resume_exp >= required_exp
        THEN IF over # {}
             THEN LET max_exp == CHOOSE m \in over : TRUE
                      excess == resume_exp - max_exp * Tenth
                  IN  [score |-> Max2(70 * Scale,
                                      Hundred - (excess * 5 * Scale) \div Tenth),
                       gap |-> 0]
             ELSE [score |-> Hundred, gap |-> 0]
        ELSE LET gap == required_exp - resume_exp
             IN  [score |-> Max2(0, Hundred - (gap * 20 * Scale) \div Tenth),
                  gap |-> gap]

\* the education_levels table of _calculate_education_score
EducationLevels ==
    [k \in {"phd", "ph.d", "doctorate", "masters", "master", "m.tech", "m.sc",
            "mba", "bachelors", "bachelor", "b.tech", "b.sc", "b.e",
            "diploma", "high school"} |->
        CASE k \in {"phd", "ph.d", "doctorate"} -> 5
          [] k \in {"masters", "master", "m.tech", "m.sc", "mba"} -> 4
          [] k \in {"bachelors", "bachelor", "b.tech", "b.sc", "b.e"} -> 3
          [] k = "diploma" -> 2
          [] k = "high school" -> 1]

\* 'key in degree' for a key of the table and a lower-cased degree string
KeyInDegree(key, degree) == InWord(key, degree)

RECURSIVE MaxOf(_)
MaxOf(S) ==
    IF S = {} THEN 0
    ELSE LET x == CHOOSE y \in S : TRUE IN Max2(x, MaxOf(S \ {x}))

\* the resume's highest recognised level, 0 when no key matches any degree
ResumeLevel(r) ==
    MaxOf({ EducationLevels[k] :
              k \in { key \in DOMAIN EducationLevels :
                        \E i \in 1..Len(r.education) :
                            KeyInDegree(key, Lower(r.education[i].degree)) } })

\* EducationScore without the floor at 50
EducationScore_NoFloor(r, j) ==
    LET resume_level == ResumeLevel(r)
        required_edu == Lower(j.education_required)
        required_level ==
            IF required_edu \in DOMAIN EducationLevels
            THEN EducationLevels[required_edu] ELSE 0
    IN  IF required_level = 0 THEN Hundred
        ELSE IF resume_level >= required_level THEN Hundred
        ELSE IF resume_level = required_level - 1 THEN 80 * Scale
        ELSE Hundred - (required_level - resume_level) * 20 * Scale

\* _calculate_education_score
EducationScore(r, j) ==
    LET resume_level == ResumeLevel(r)
        required_edu == Lower(j.education_required)
        required_level ==
            IF required_edu \in DOMAIN EducationLevels
            THEN EducationLevels[required_edu] ELSE 0
    IN  IF required_level = 0 THEN Hundred
        ELSE IF resume_level >= required_level THEN Hundred
        ELSE IF resume_level = required_level - 1 THEN 80 * Scale
        ELSE Max2(50 * Scale, Hundred - (required_level - resume_level) * 20 * Scale)

\* the description fields of a list of entries
Descriptions(entries) == [i \in 1..Len(entries) |-> entries[i].description]

\* _calculate_keywords_score
KeywordsScore(r, j) ==
    LET resume_text ==
            LowerStr(Join(Space, << r.summary,
                                    Join(Space, Descriptions(r.experience)),
                                    Join(Space, Descriptions(r.projects)) >>))
        job_keywords == j.keywords
        matched_count ==
            Cardinality({ i \in 1..Len(job_keywords) :
                            InStr(job_keywords[i], resume_text) })
    IN  IF job_keywords = <<>> THEN Hundred
        ELSE (matched_count * Hundred) \div Len(job_keywords)

(***************************************************************************)
(* TfidfVectorizer(ngram_range=(1, 2), stop_words='english') on exactly    *)
(* two documents, and cosine_similarity of the two rows.                   *)
(***************************************************************************)
\* pieces the token pattern \w\w+ does not yield: a single character, a
\* line break, a rule of dashes, single digits with a sign between or after
OneCharWords == {"c", "5", "\n", "------", "3+", "6+", "1-2", "3-0"}

\* the analyzer: lower-case, tokenize, drop stop words
Tokens(s) ==
    SelectSeq(LowerStr(WordsOf(s)),
              LAMBDA w : w \notin StopWords /\ w \notin OneCharWords)

\* unigrams and bigrams of adjacent tokens, with repetitions
Ngrams(s) ==
    LET t == Tokens(s)
    IN  [i \in 1..Len(t) |-> <<t[i]>>] \o
        [i \in 1..(IF Len(t) = 0 THEN 0 ELSE Len(t) - 1) |-> <<t[i], t[i + 1]>>]

TermCount(term, grams) == Cardinality({ i \in 1..Len(grams) : grams[i] = term })

\* smoothed idf for 2 documents, times 10: ln(3 / (1 + df)) + 1
Idf10(df) == IF df = 2 THEN 10 ELSE 14

RECURSIVE SumOver(_, _)
SumOver(S, f) ==
    IF S = {} THEN 0
    ELSE LET x == CHOOSE y \in S : TRUE IN f[x] + SumOver(S \ {x}, f)

\* cosine similarity of the tf-idf rows of two documents given by their
\* n-grams, times Scale; a row without terms has similarity 0 with every row
CosineOfGrams(g1, g2) ==
    LET r1 == RangeOf(g1)
        r2 == RangeOf(g2)
        vocabulary == r1 \cup r2
        idf == [t \in vocabulary |->
                   Idf10((IF t \in r1 THEN 1 ELSE 0)
                         + (IF t \in r2 THEN 1 ELSE 0))]
        w1 == [t \in vocabulary |-> TermCount(t, g1) * idf[t]]
        w2 == [t \in vocabulary |-> TermCount(t, g2) * idf[t]]
        d == SumOver(vocabulary, [t \in vocabulary |-> w1[t] * w2[t]])
        n1 == SumOver(vocabulary, [t \in vocabulary |-> w1[t] * w1[t]])
        n2 == SumOver(vocabulary, [t \in vocabulary |-> w2[t] * w2[t]])
    IN  IF n1 = 0 \/ n2 = 0 THEN 0
        ELSE (d * Scale) \div Isqrt(n1 * n2)

TfidfCosine(doc1, doc2) == CosineOfGrams(Ngrams(doc1), Ngrams(doc2))

\* fit_transform raises ValueError('empty vocabulary') when no term is left
VectorizerRaises(doc1, doc2) == Ngrams(doc1) = <<>> /\ Ngrams(doc2) = <<>>

\* the TfidfVectorizer a new JobResumeMatcher holds
Unfitted == [fitted |-> FALSE, vocabulary |-> {}]

\* a vectorizer that is fitted once: a fitted one only transforms the two
\* documents, over the vocabulary it already has
FitTransform_FitOnce(vec, doc1, doc2) ==
    IF vec.fitted
    THEN [raised |-> FALSE, vectorizer |-> vec,
          similarity |->
              CosineOfGrams(
                  SelectSeq(Ngrams(doc1), LAMBDA g : g \in vec.vocabulary),
                  SelectSeq(Ngrams(doc2), LAMBDA g : g \in vec.vocabulary))]
    ELSE IF VectorizerRaises(doc1, doc2)
    THEN [raised |-> TRUE, vectorizer |-> vec, similarity |-> 0]
    ELSE [raised |-> FALSE,
          vectorizer |->
              [fitted |-> TRUE,
               vocabulary |-> RangeOf(Ngrams(doc1)) \cup RangeOf(Ngrams(doc2))],
          similarity |-> TfidfCosine(doc1, doc2)]

\* vectorizer.fit_transform([doc1, doc2]) and the cosine of the two rows:
\* the vocabulary is learned anew from the two documents; when it is empty
\* the call raises and the vectorizer stays as it was
FitTransform(vec, doc1, doc2) ==
    IF VectorizerRaises(doc1, doc2)
    THEN [raised |-> TRUE, vectorizer |-> vec, similarity |-> 0]
    ELSE [raised |-> FALSE,
          vectorizer |->
              [fitted |-> TRUE,
               vocabulary |-> RangeOf(Ngrams(doc1)) \cup RangeOf(Ngrams(doc2))],
          similarity |-> TfidfCosine(doc1, doc2)]

\* the score and the vectorizer a fit_transform leaves: 50 when it raised
SemanticOf(fit) ==
    [score |-> IF fit.raised THEN 50 * Scale ELSE fit.similarity * 100,
     vectorizer |-> fit.vectorizer]

\* the resume text of _calculate_semantic_score
SemanticResumeText(r) ==
    Join(Space, << r.summary, Join(Space, Descriptions(r.experience)) >>)

\* _calculate_semantic_score on a matcher whose vectorizer is vec: the
\* score and the vectorizer afterwards
SemanticStep(vec, r, j) ==
    IF SemanticResumeText(r) = <<>> \/ j.raw_text = <<>>
    THEN [score |-> 50 * Scale, vectorizer |-> vec]
    ELSE SemanticOf(FitTransform(vec, j.raw_text, SemanticResumeText(r)))

\* _calculate_semantic_score on a new matcher
SemanticScore(r, j) == SemanticStep(Unfitted, r, j).score

\* some min(n, |S|) elements of the set S, as missing_skills[:n] takes the
\* first n elements of list(set)
RECURSIVE TakeSome(_, _)
TakeSome(S, n) ==
    IF n = 0 \/ S = {} THEN {}
    ELSE LET x == CHOOSE y \in S : TRUE IN {x} \cup TakeSome(S \ {x}, n - 1)

SummaryExcellent == "Excellent match! This candidate meets most requirements."
SummaryGood == "Good match. Candidate has relevant skills but may have some gaps."
SummaryModerate ==
    "Moderate match. Consider if willing to train or if skills are transferable."
SummaryLow == "Low match. Significant gaps in required qualifications."

\* GenerateExplanation that names every missing skill
GenerateExplanation_AllMissingNamed(sc, r, j) ==
    LET overall == sc.overall_score
    IN  [summary |->
             IF overall >= 80 * Scale THEN SummaryExcellent
             ELSE IF overall >= 60 * Scale THEN SummaryGood
             ELSE IF overall >= 40 * Scale THEN SummaryModerate
             ELSE SummaryLow,
         strengths |->
             (IF sc.skills_score >= 70 * Scale
              THEN << <<"Strong skills match", Cardinality(sc.matched_skills)>> >>
              ELSE <<>>)
             \o (IF sc.experience_score >= 80 * Scale
                 THEN << <<"Meets experience requirement",
                           r.total_experience_years>> >>
                 ELSE <<>>)
             \o (IF sc.education_score >= 90 * Scale
                 THEN << <<"Meets education requirements">> >>
                 ELSE <<>>),
         weaknesses |->
             (IF sc.skills_score < 60 * Scale
              THEN << <<"Missing required skills",
                        Cardinality(sc.missing_skills)>> >>
              ELSE <<>>)
             \o (IF sc.experience_gap > 0
                 THEN << <<"Needs more years of experience", sc.experience_gap>> >>
                 ELSE <<>>)
             \o (IF sc.education_score < 70 * Scale
                 THEN << <<"May not meet education requirements">> >>
                 ELSE <<>>),
         recommendations |->
             IF overall >= 70 * Scale
             THEN << <<"Recommend for interview">> >>
             ELSE IF overall >= 50 * Scale
             THEN << <<"Consider for phone screen">> >>
                  \o (IF sc.missing_skills # {}
                      THEN << <<"Assess proficiency in",
                                sc.missing_skills>> >>
                      ELSE <<>>)
             ELSE << <<"Consider other candidates first">> >>]

\* _generate_explanation; a formatted line is the pair of its template and
\* the value put into it
GenerateExplanation(sc, r, j) ==
    LET overall == sc.overall_score
    IN  [summary |->
             IF overall >= 80 * Scale THEN SummaryExcellent
             ELSE IF overall >= 60 * Scale THEN SummaryGood
             ELSE IF overall >= 40 * Scale THEN SummaryModerate
             ELSE SummaryLow,
         strengths |->
             (IF sc.skills_score >= 70 * Scale
              THEN << <<"Strong skills match", Cardinality(sc.matched_skills)>> >>
              ELSE <<>>)
             \o (IF sc.experience_score >= 80 * Scale
                 THEN << <<"Meets experience requirement",
                           r.total_experience_years>> >>
                 ELSE <<>>)
             \o (IF sc.education_score >= 90 * Scale
                 THEN << <<"Meets education requirements">> >>
                 ELSE <<>>),
         weaknesses |->
             (IF sc.skills_score < 60 * Scale
              THEN << <<"Missing required skills",
                        Cardinality(sc.missing_skills)>> >>
              ELSE <<>>)
             \o (IF sc.experience_gap > 0
                 THEN << <<"Needs more years of experience", sc.experience_gap>> >>
                 ELSE <<>>)
             \o (IF sc.education_score < 70 * Scale
                 THEN << <<"May not meet education requirements">> >>
                 ELSE <<>>),
         recommendations |->
             IF overall >= 70 * Scale
             THEN << <<"Recommend for interview">> >>
             ELSE IF overall >= 50 * Scale
             THEN << <<"Consider for phone screen">> >>
                  \o (IF sc.missing_skills # {}
                      THEN << <<"Assess proficiency in",
                                TakeSome(sc.missing_skills, 3)>> >>
                      ELSE <<>>)
             ELSE << <<"Consider other candidates first">> >>]

\* the weights of the overall score, in percent
WeightSkills == 40
WeightExperience == 30
WeightEducation == 15
WeightKeywords == 10
WeightSemantic == 5

\* the scores dictionary calculate_match_score starts from
EmptyScores ==
    [overall_score |-> 0, skills_score |-> 0, experience_score |-> 0,
     education_score |-> 0, keywords_score |-> 0, semantic_score |-> 0,
     matched_skills |-> {}, missing_skills |-> {}, experience_gap |-> 0,
     explanation |-> [summary |-> "", strengths |-> <<>>, weaknesses |-> <<>>,
                      recommendations |-> <<>>]]

\* WeightedScores that spreads the weight of a semantic score at its
\* default over the other four sub-scores
WeightedScores_Renormalized(sk, ex, ed, kw, se) ==
    [overall_score |->
         IF se = 50 * Scale
         THEN (sk.score * WeightSkills + ex.score * WeightExperience
               + ed * WeightEducation + kw * WeightKeywords)
                  \div (100 - WeightSemantic)
         ELSE (sk.score * WeightSkills + ex.score * WeightExperience
               + ed * WeightEducation + kw * WeightKeywords
               + se * WeightSemantic) \div 100,
     skills_score |-> sk.score,
     experience_score |-> ex.score,
     education_score |-> ed,
     keywords_score |-> kw,
     semantic_score |-> se,
     matched_skills |-> sk.matched,
     missing_skills |-> sk.missing,
     experience_gap |-> ex.gap,
     explanation |-> EmptyScores.explanation]

\* the scores dictionary once the five sub-scores are calculated
WeightedScores(sk, ex, ed, kw, se) ==
    [overall_score |-> (sk.score * WeightSkills + ex.score * WeightExperience
                        + ed * WeightEducation + kw * WeightKeywords
                        + se * WeightSemantic) \div 100,
     skills_score |-> sk.score,
     experience_score |-> ex.score,
     education_score |-> ed,
     keywords_score |-> kw,
     semantic_score |-> se,
     matched_skills |-> sk.matched,
     missing_skills |-> sk.missing,
     experience_gap |-> ex.gap,
     explanation |-> EmptyScores.explanation]

\* scores['explanation'] = self._generate_explanation(scores, ...)
Explained(sc, r, j) ==
    [sc EXCEPT !.explanation = GenerateExplanation(sc, r, j)]

\* calculate_match_score
CalculateMatchScore(r, j) ==
    Explained(WeightedScores(SkillsScore(r, j), ExperienceScore(r, j),
                             EducationScore(r, j), KeywordsScore(r, j),
                             SemanticScore(r, j)),
              r, j)

(***************************************************************************)
(* Candidate ranker: CandidateRanker.rank_candidates                       *)
(***************************************************************************)
\* a candidate profile with e-mail and phone exchanged
CandidateProfile_SwappedContact(r, sc) ==
    [name |-> r.contact.name,
     email |-> r.contact.phone,
     phone |-> r.contact.email,
     overall_score |-> Round2(sc.overall_score),
     skills_score |-> Round2(sc.skills_score),
     experience_score |-> Round2(sc.experience_score),
     education_score |-> Round2(sc.education_score),
     total_experience |-> r.total_experience_years,
     matched_skills |-> sc.matched_skills,
     missing_skills |-> sc.missing_skills,
     explanation |-> sc.explanation,
     resume_data |-> r]

\* the candidate profile built from a resume and its scores
CandidateProfile(r, sc) ==
    [name |-> r.contact.name,
     email |-> r.contact.email,
     phone |-> r.contact.phone,
     overall_score |-> Round2(sc.overall_score),
     skills_score |-> Round2(sc.skills_score),
     experience_score |-> Round2(sc.experience_score),
     education_score |-> Round2(sc.education_score),
     total_experience |-> r.total_experience_years,
     matched_skills |-> sc.matched_skills,
     missing_skills |-> sc.missing_skills,
     explanation |-> sc.explanation,
     resume_data |-> r]

\* one iteration of the loop over the resumes
Candidate(r, jd) == CandidateProfile(r, CalculateMatchScore(r, jd))

\* one step of the stable descending sort with ties put first
InsertDesc_BeforeTies(sorted, c) ==
    LET k == Cardinality({ i \in 1..Len(sorted) :
                             sorted[i].overall_score > c.overall_score })
    IN  SubSeq(sorted, 1, k) \o <<c>> \o SubSeq(sorted, k + 1, Len(sorted))

\* one step of list.sort(key=overall_score, reverse=True): the next element
\* of the input goes behind every element whose key is not smaller
InsertDesc(sorted, c) ==
    LET k == Cardinality({ i \in 1..Len(sorted) :
                             sorted[i].overall_score >= c.overall_score })
    IN  SubSeq(sorted, 1, k) \o <<c>> \o SubSeq(sorted, k + 1, Len(sorted))

RECURSIVE SortDesc(_)
SortDesc(cands) ==
    IF cands = <<>> THEN <<>>
    ELSE InsertDesc(SortDesc(SubSeq(cands, 1, Len(cands) - 1)),
                    cands[Len(cands)])

\* seq[:n] for any integer n
SliceTo(q, n) ==
    IF n >= 0 THEN SubSeq(q, 1, Min2(n, Len(q)))
    ELSE SubSeq(q, 1, Max2(0, Len(q) + n))

\* "if top_n: return ranked_candidates[:top_n]", else the whole list
TopN(candidates, n) ==
    IF \E t \in n : t # 0
    THEN SliceTo(candidates, CHOOSE t \in n : TRUE)
    ELSE candidates

\* the candidates of the resumes, in input order
Candidates(rs, job_data) ==
    [i \in 1..Len(rs) |-> Candidate(rs[i], job_data)]

\* rank_candidates
RankCandidates(rs, text, n) ==
    TopN(SortDesc(Candidates(rs, ParseJobDescription(text))), n)

\* calculate_match_score on a matcher whose vectorizer is vec, given what
\* its semantic step returns: the scores and the vectorizer afterwards
MatchOf(sem, r, j) ==
    [scores |-> Explained(WeightedScores(SkillsScore(r, j),
                                         ExperienceScore(r, j),
                                         EducationScore(r, j),
                                         KeywordsScore(r, j), sem.score),
                          r, j),
     vectorizer |-> sem.vectorizer]

MatchStep(vec, r, j) == MatchOf(SemanticStep(vec, r, j), r, j)

\* the loop of rank_candidates on one CandidateRanker: every resume is
\* scored by the same matcher, so the vectorizer is handed from one resume
\* to the next and stays with the instance when the loop is over
RECURSIVE RankLoop(_, _, _)
LoopRest(step, rest, r) ==
    [candidates |-> << CandidateProfile(r, step.scores) >> \o rest.candidates,
     vectorizer |-> rest.vectorizer]

LoopFrom(step, rs, job_data) ==
    LoopRest(step, RankLoop(step.vectorizer, Tail(rs), job_data), Head(rs))

RankLoop(vec, rs, job_data) ==
    IF rs = <<>> THEN [candidates |-> <<>>, vectorizer |-> vec]
    ELSE LoopFrom(MatchStep(vec, Head(rs), job_data), rs, job_data)

RankedOf(loop, n) ==
    [ranked |-> TopN(SortDesc(loop.candidates), n),
     vectorizer |-> loop.vectorizer]

\* rank_candidates on the instance whose matcher holds vec: the list
\* returned and the vectorizer the instance keeps
RankOnInstance(vec, rs, text, n) ==
    RankedOf(RankLoop(vec, rs, ParseJobDescription(text)), n)

(***************************************************************************)
(* Inputs of the scorer                                                    *)
(***************************************************************************)
MaxExperience == 2
MaxEducation == 1

\* the skills mapping of a parsed resume: categories without a match are
\* omitted
SkillMap(prog, db) ==
    [c \in (IF prog = {} THEN {} ELSE {"programming"})
            \cup (IF db = {} THEN {} ELSE {"database"}) |->
        IF c = "programming" THEN prog ELSE db]

ResumeSkillMaps ==
    { SkillMap({}, {}), SkillMap({"Python"}, {}), SkillMap({"Python"}, {"SQL"}),
      SkillMap({"Python", "Java"}, {"SQL"}) }

RECURSIVE SeqsUpTo(_, _)
SeqsUpTo(S, n) ==
    IF n = 0 THEN { <<>> }
    ELSE LET shorter == SeqsUpTo(S, n - 1)
         IN  shorter \cup { Append(q, x) : q \in shorter, x \in S }

Degrees == {"Bachelor", "PhD", "M.S."}

ResumeEducations ==
    SeqsUpTo({ [degree |-> d] : d \in Degrees }, MaxEducation)

\* work entries as the experience extractor leaves them: the description
\* and the duration string
WorkEntries ==
    { [description |-> <<"sql", " ", "team">>, duration |-> "3 years"],
      [description |-> <<"python", " ", "cloud">>, duration |-> "8 years"],
      [description |-> <<"the">>, duration |-> "Ongoing"] }

ResumeExperiences == SeqsUpTo(WorkEntries, MaxExperience)

\* the summary (kept by the parser only when longer than 20 characters) and
\* the project entries
ResumeProfiles ==
    { [summary |-> <<>>, projects |-> <<>>],
      [summary |-> <<"Senior", " ", "Python", " ", "Developer", " ", "team">>,
       projects |-> << [description |-> <<"java", " ", "cloud">>] >>],
      [summary |-> <<>>,
       projects |-> << [description |-> <<"javascript">>] >>] }

Contacts ==
    { [name |-> "Asha Rao", email |-> "asha@example.com", phone |-> "555-0101"] }

\* the whole years the first \d+ of a duration string gives
DurationYears ==
    { <<"0 year", 0>>, <<"1 year", 1>>, <<"3 years", 3>>, <<"8 years", 8>>,
      <<"-2 year", 2>> }

\* re.search(r'\d{4}', date): the pieces of a date that hold four digits in
\* a row, each with the number of the first such run
YearPieces ==
    { <<"2017", 2017>>, <<"2019", 2019>>, <<"2020", 2020>>, <<"2021", 2021>>,
      <<"2022", 2022>>, <<"2025", 2025>>, <<"01/02/2020", 2020>> }

HasYear(date) == \E i \in 1..Len(date) : \E y \in YearPieces : y[1] = date[i]

FirstYear(date) ==
    LET i == CHOOSE k \in 1..Len(date) :
                 /\ \E y \in YearPieces : y[1] = date[k]
                 /\ \A h \in 1..(k - 1) : \A y \in YearPieces : y[1] # date[h]
    IN  (CHOOSE y \in YearPieces : y[1] = date[i])[2]

\* datetime.now().year at tick now
ClockYear(now) == 2026 + now

\* f"{years} years" if years > 1 else f"{years} year"
FormatDuration(years) ==
    ToString(years) \o (IF years > 1 THEN " years" ELSE " year")

\* _calculate_duration; a date without four digits in a row makes
\* re.search return None, and the except clause returns ""
CalculateDuration(start_date, end_date, now) ==
    IF start_date = <<>> THEN ""
    ELSE IF [i \in 1..Len(end_date) |-> Lower(end_date[i])]
                \in { <<"present">>, <<"current">>, <<"now">>, <<"ongoing">> }
    THEN "Ongoing"
    ELSE IF ~HasYear(start_date) THEN ""
    ELSE IF \E i \in 1..Len(end_date) : Lower(end_date[i]) = "present"
    THEN FormatDuration(ClockYear(now) - FirstYear(start_date))
    ELSE IF ~HasYear(end_date) THEN ""
    ELSE FormatDuration(FirstYear(end_date) - FirstYear(start_date))

\* the entry of _extract_experience once its duration is calculated
WithDuration(exp, now) ==
    [exp EXCEPT !.duration = CalculateDuration(exp.start_date, exp.end_date, now)]

\* _calculate_total_experience, in tenths of a year: round(months / 12, 1)
RECURSIVE TotalMonths(_)
TotalMonths(experiences) ==
    IF experiences = <<>> THEN 0
    ELSE LET duration == experiences[1].duration
         IN  (IF \E t \in DurationYears : t[1] = duration
              THEN (CHOOSE t \in DurationYears : t[1] = duration)[2] * 12
              ELSE 0)
             + TotalMonths(Tail(experiences))

\* CalculateTotalExperience that leaves out the entries without a description
CalculateTotalExperience_DescribedOnly(experiences) ==
    RoundDiv(TotalMonths(SelectSeq(experiences,
                                   LAMBDA exp : exp.description # <<>>))
                 * Tenth, 12)

CalculateTotalExperience(experiences) ==
    RoundDiv(TotalMonths(experiences) * Tenth, 12)

ScoreResumes ==
    { [contact |-> c, summary |-> p.summary, experience |-> ex,
       education |-> ed, skills |-> sk, projects |-> p.projects,
       total_experience_years |-> CalculateTotalExperience(ex)] :
        c \in Contacts, p \in ResumeProfiles, ex \in ResumeExperiences,
        ed \in ResumeEducations, sk \in ResumeSkillMaps }

\* job postings: a skills block and a requirements block, each optional
SkillBlocks ==
    { <<>>,
      <<"Python", " ", "SQL">>,
      <<"python", " ", "sql", " ", "required", NL, Dashes, NL,
        "java", " ", "preferred">>,
      <<"java", " ", "aws", " ", "preferred">>,
      <<"the">> }

RequirementBlocks ==
    { <<>>,
      <<"3+", " ", "years", NL, "bachelor">>,
      <<"1-2", " ", "years">>,
      <<"6+", " ", "years", " ", "experience", NL, "phd">>,
      <<"fresher", NL, "masters">> }

\* every skills block with every requirements block, a posting whose
\* range of years ends at 0 and one with four preferred skills
JobTexts ==
    { Join(NL, SelectSeq(<<sk, rq>>, LAMBDA b : b # <<>>)) :
        sk \in SkillBlocks, rq \in RequirementBlocks }
    \cup { <<"3-0", " ", "years">>,
           <<"python", " ", "sql", " ", "required", NL, Dashes, NL,
             "java", " ", "aws", " ", "docker", " ", "mysql", " ", "preferred",
             NL, "6+", " ", "years">> }

(***************************************************************************)
(* Format dispatch: ResumeParser.parse_resume                              *)
(*                                                                         *)
(* A file is its stem, its suffix as written, whether the text extractor   *)
(* of its format can read it, whether it is within the size limit, and     *)
(* the structured fields _parse_text derives from its text.                *)
(***************************************************************************)
FileName(f) == <<f.name, f.suffix>>

Unsupported(suffix) == <<"Unsupported file format: ", suffix>>

ReadError == <<"cannot read file">>

\* _extract_text_from_pdf / _extract_text_from_docx followed by the rest
\* of parse_resume: the extractor re-raises what the library raises
ExtractAndParse(extractor, f, now) ==
    IF f.readable
    THEN [raised |-> FALSE, extractor |-> extractor,
          data |-> [file_name |-> FileName(f), parsed_date |-> now]
                       @@ f.content]
    ELSE [raised |-> TRUE, extractor |-> extractor, error |-> ReadError]

\* a dispatch that also lets plain text files through
ParseResume_TextAccepted(f, now) ==
    LET suffix == Lower(f.suffix)
    IN  IF suffix = ".pdf" THEN ExtractAndParse("pdf", f, now)
        ELSE IF suffix \in {".docx", ".doc", ".txt"}
             THEN ExtractAndParse("docx", f, now)
        ELSE [raised |-> TRUE, extractor |-> "none",
              error |-> Unsupported(f.suffix)]

ParseResume(f, now) ==
    LET suffix == Lower(f.suffix)
    IN  IF suffix = ".pdf" THEN ExtractAndParse("pdf", f, now)
        ELSE IF suffix \in {".docx", ".doc"}
             THEN ExtractAndParse("docx", f, now)
        ELSE [raised |-> TRUE, extractor |-> "none",
              error |-> Unsupported(f.suffix)]

(***************************************************************************)
(* Batch parse: BulkResumeProcessor                                        *)
(***************************************************************************)
supported_formats == {".pdf", ".docx", ".doc"}

\* extract_zip: the files of the archive, in the order os.walk lists them,
\* that have a supported suffix and are within max_file_size; an archive
\* that cannot be opened gives the empty list
ExtractZip(zip) ==
    IF zip.ok
    THEN SelectSeq(zip.entries,
                   LAMBDA f : Lower(f.suffix) \in supported_formats /\ f.small)
    ELSE <<>>

ParseSingleResume(f, now) ==
    LET r == ParseResume(f, now)
    IN  IF r.raised
        THEN [filename |-> FileName(f), status |-> "failed",
              error |-> r.error]
        ELSE [filename |-> FileName(f), status |-> "success"] @@ r.data

NewResults(paths) ==
    [successful |-> <<>>, failed |-> <<>>, total |-> Len(paths),
     success_count |-> 0, fail_count |-> 0]

\* a collecting loop that counts a failure without keeping its record
Collected_FailureNotKept(res, result) ==
    IF result.status = "success"
    THEN [res EXCEPT !.successful = Append(@, result),
                     !.success_count = @ + 1]
    ELSE [res EXCEPT !.fail_count = @ + 1]

\* the body of the collecting loop for one finished future
Collected(res, result) ==
    IF result.status = "success"
    THEN [res EXCEPT !.successful = Append(@, result),
                     !.success_count = @ + 1]
    ELSE [res EXCEPT !.failed = Append(@, result),
                     !.fail_count = @ + 1]

NoFile ==
    [name |-> "", suffix |-> "", readable |-> FALSE, small |-> TRUE,
     content |-> [contact |-> [name |-> "", email |-> "", phone |-> ""]]]

NoOutcome == [status |-> "none"]

ParseIdle ==
    /\ file_path = NoFile
    /\ parsed = [raised |-> FALSE, extractor |-> "none"]
    /\ extractions = <<>>
    /\ ppc = "idle"

BulkIdle ==
    /\ uploaded_zip = [ok |-> FALSE, entries |-> <<>>]
    /\ file_paths = <<>>
    /\ max_workers = 1
    /\ futures = <<>>
    /\ outcomes = <<>>
    /\ completed = <<>>
    /\ results = NewResults(<<>>)
    /\ processed = 0
    /\ bpc = "idle"

(***************************************************************************)
(* Specification of the scorer: the inputs are drawn at the start and     *)
(* calculate_match_score is applied to them.                               *)
(***************************************************************************)
InstanceIdle ==
    /\ vectorizer = Unfitted
    /\ reference = [resumes |-> <<>>, job_description |-> <<>>, top_n |-> {}]
    /\ first_ranked = {}
    /\ calls = 0
    /\ between = 0

ExperienceIdle ==
    /\ raw_entries = <<>>
    /\ parsed_experience = <<>>
    /\ total_experience = 0
    /\ xpc = "idle"

TextIdle ==
    /\ document = [kind |-> "none", text |-> <<>>]
    /\ sections = <<>>
    /\ contact_name = <<>>
    /\ job_title = <<>>
    /\ work_entries = <<>>
    /\ job_skills = << <<>>, <<>> >>
    /\ tpc = "idle"

SessionIdle ==
    /\ parsed_resumes = <<>>
    /\ session_job_description = <<>>
    /\ ranked_candidates = <<>>
    /\ apc = "idle"

ScoreIdle ==
    /\ job = ParseJobDescription(<<>>)
    /\ resume = [contact |-> [name |-> "", email |-> "", phone |-> ""],
                 summary |-> <<>>, experience |-> <<>>, education |-> <<>>,
                 skills |-> <<>>, projects |-> <<>>,
                 total_experience_years |-> 0]
    /\ scores = EmptyScores
    /\ spc = "idle"

RankIdle ==
    /\ resumes = <<>>
    /\ job_description = <<>>
    /\ top_n = {}
    /\ ranked = <<>>
    /\ rpc = "idle"

ScoreInit ==
    /\ \E text \in JobTexts : job = ParseJobDescription(text)
    /\ resume \in ScoreResumes
    /\ scores = EmptyScores
    /\ spc = "ready"
    /\ RankIdle
    /\ ParseIdle
    /\ BulkIdle
    /\ clock = 0
    /\ InstanceIdle
    /\ SessionIdle
    /\ ExperienceIdle
    /\ TextIdle

Score ==
    /\ spc = "ready"
    /\ scores' = CalculateMatchScore(resume, job)
    /\ spc' = "scored"
    /\ UNCHANGED <<instanceVars, sessionVars, experienceVars, textVars>>
    /\ UNCHANGED <<resume, job, rankVars, parseVars, bulkVars, clock>>

ScoreNext == Score

SpecScore == ScoreInit /\ [][ScoreNext]_vars

(***************************************************************************)
(* Specification of the ranker: a list of resumes, a job text and top_n   *)
(* are drawn at the start and rank_candidates is applied to them.          *)
(***************************************************************************)
MaxResumes == 3
MaxTopN == 3

RankContacts ==
    { [name |-> "Asha Rao", email |-> "asha@example.com", phone |-> "555-0101"],
      [name |-> "Bo Lind", email |-> "bo@example.com", phone |-> "555-0102"] }

\* two resumes alike in everything but the contact, a weaker one and an
\* overqualified one
RankResumes ==
    { [contact |-> c,
       summary |-> <<"Senior", " ", "Python", " ", "Developer", " ", "team">>,
       experience |-> << [description |-> <<"sql", " ", "team">>,
                          duration |-> "3 years"] >>,
       education |-> << [degree |-> "Bachelor"] >>,
       skills |-> SkillMap({"Python"}, {"SQL"}),
       projects |-> <<>>,
       total_experience_years |-> 3 * Tenth] : c \in RankContacts }
    \cup
    { [contact |-> [name |-> "Chen Wu", email |-> "chen@example.com",
                    phone |-> "555-0103"],
       summary |-> <<>>,
       experience |-> <<>>,
       education |-> <<>>,
       skills |-> SkillMap({"Python"}, {}),
       projects |-> <<>>,
       total_experience_years |-> 0],
      [contact |-> [name |-> "Dee Park", email |-> "dee@example.com",
                    phone |-> "555-0104"],
       summary |-> <<>>,
       experience |-> << [description |-> <<"python", " ", "cloud">>,
                          duration |-> "8 years"] >>,
       education |-> << [degree |-> "PhD"] >>,
       skills |-> SkillMap({"Python", "Java"}, {"SQL"}),
       projects |-> << [description |-> <<"java", " ", "cloud">>] >>,
       total_experience_years |-> 8 * Tenth] }

RankJobTexts ==
    { <<>>,
      <<"Python", " ", "SQL", NL, "3+", " ", "years", NL, "bachelor">>,
      <<"python", " ", "sql", " ", "required", NL, Dashes, NL,
        "java", " ", "preferred", NL, "1-2", " ", "years">> }

\* a posting with three required skills, one preferred skill, 3+ years and
\* a masters degree, and a resume without work entries that has two of the
\* required skills, the preferred one and a bachelor degree, and names four
\* of the posting's six keywords in a project
BoundaryJobText ==
    <<"python", " ", "sql", " ", "java", " ", "required", NL, Dashes, NL,
      "aws", " ", "preferred", NL, "3+", " ", "years", NL, "masters">>

BoundaryResumes ==
    { [contact |-> [name |-> "Eli Noor", email |-> "eli@example.com",
                    phone |-> "555-0105"],
       summary |-> <<>>,
       experience |-> <<>>,
       education |-> << [degree |-> "Bachelor"] >>,
       skills |-> SkillMap({"Python", "SQL"}, {"AWS"}),
       projects |-> << [description |->
                            <<"python", " ", "sql", " ", "aws", " ", "years">>] >>,
       total_experience_years |-> 0] }
    \cup { r \in RankResumes : r.contact.name = "Dee Park" }

RankInit ==
    /\ \/ /\ resumes \in SeqsUpTo(RankResumes, MaxResumes)
          /\ job_description \in RankJobTexts
       \/ /\ resumes \in SeqsUpTo(BoundaryResumes, MaxResumes) \ { <<>> }
          /\ job_description = BoundaryJobText
    /\ top_n \in { {} } \cup { {n} : n \in 0..MaxTopN }
    /\ ranked = <<>>
    /\ rpc = "ready"
    /\ ScoreIdle
    /\ ParseIdle
    /\ BulkIdle
    /\ clock = 0
    /\ InstanceIdle
    /\ SessionIdle
    /\ ExperienceIdle
    /\ TextIdle

\* rank_candidates that sorts and cuts the list it was given
ResumesAfterRank_InPlace(rs, returned) ==
    [i \in 1..Len(returned) |-> returned[i].resume_data]

\* the caller's list of resumes once rank_candidates has returned: the loop
\* only reads the list and its records (the scorer reads them with get),
\* append, sort and the slice act on the list ranked_candidates built by
\* the call, and each candidate refers to its resume without writing to it
ResumesAfterRank(rs, returned) == rs

Rank ==
    /\ rpc = "ready"
    /\ ranked' = RankCandidates(resumes, job_description, top_n)
    /\ resumes' = ResumesAfterRank(resumes, ranked')
    /\ rpc' = "ranked"
    /\ UNCHANGED <<instanceVars, sessionVars, experienceVars, textVars>>
    /\ UNCHANGED <<job_description, top_n, scoreVars, parseVars, bulkVars,
                   clock>>

RankNext == Rank

SpecRank == RankInit /\ [][RankNext]_vars

(***************************************************************************)
(* Specification: durations and total of the work entries of a resume      *)
(***************************************************************************)
MaxEntries == 2

\* entries as _extract_experience holds them before line 349: the dates are
\* matches of date_patterns, the first two found
DatedEntries ==
    LET entry(position, start_date, end_date, description) ==
            [company |-> "", position |-> position, start_date |-> start_date,
             end_date |-> end_date, duration |-> "",
             description |-> description, location |-> ""]
    IN  { entry("Engineer", <<"2017">>, <<"2020">>, <<"sql", " ", "team">>),
          entry("Analyst", <<"Jan", " ", "2022">>, <<"Dec", " ", "2025">>,
                <<>>),
          entry("Engineer", <<"2017">>, <<"2025">>,
                <<"python", " ", "cloud">>),
          entry("Analyst", <<"2020">>, <<"2021">>, <<"the">>),
          entry("Intern", <<"2022">>, <<"2020">>, <<>>),
          entry("Lead", <<"2019">>, <<"Present">>, <<"python", " ", "cloud">>),
          entry("Lead", <<"2021">>, <<"now">>, <<>>),
          entry("Intern", <<"01/02/20">>, <<"2020">>, <<"sql", " ", "team">>),
          entry("Volunteer", <<>>, <<>>, <<>>) }

ExperienceInit ==
    /\ raw_entries \in SeqsUpTo(DatedEntries, MaxEntries)
    /\ clock \in 0..1
    /\ parsed_experience = <<>>
    /\ total_experience = 0
    /\ xpc = "ready"
    /\ ScoreIdle
    /\ RankIdle
    /\ ParseIdle
    /\ BulkIdle
    /\ InstanceIdle
    /\ SessionIdle
    /\ TextIdle

\* the durations of the raw_entries (line 349) and their total (line 188)
TotalExperience ==
    /\ xpc = "ready"
    /\ parsed_experience' = [i \in 1..Len(raw_entries) |-> WithDuration(raw_entries[i], clock)]
    /\ total_experience' = CalculateTotalExperience(parsed_experience')
    /\ xpc' = "parsed"
    /\ UNCHANGED <<raw_entries, textVars, scoreVars, rankVars, parseVars, bulkVars,
                   instanceVars, sessionVars, clock>>

ExperienceNext == TotalExperience

SpecExperience == ExperienceInit /\ [][ExperienceNext]_vars

(***************************************************************************)
(* Specification: several rankings on one CandidateRanker                  *)
(***************************************************************************)
MaxCalls == 3
MaxReference == 2

InstanceResumes ==
    { r \in RankResumes : r.contact.name \in {"Asha Rao", "Chen Wu", "Dee Park"} }

\* the inputs whose ranking is repeated
ReferenceInputs ==
    { [resumes |-> rs, job_description |-> text, top_n |-> {}] :
        rs \in SeqsUpTo(InstanceResumes, MaxReference), text \in RankJobTexts }

\* the rankings made in between: another job for two of the resumes, a job
\* whose text leaves the vectorizer no term, and an empty job text
OtherInputs ==
    LET asha == CHOOSE r \in InstanceResumes : r.contact.name = "Asha Rao"
        dee == CHOOSE r \in InstanceResumes : r.contact.name = "Dee Park"
    IN  { [resumes |-> << dee, asha >>,
           job_description |-> <<"java", " ", "cloud", NL, "6+", " ", "years">>,
           top_n |-> {1}],
          [resumes |-> << asha >>,
           job_description |-> <<"the">>, top_n |-> {}],
          [resumes |-> << dee >>, job_description |-> <<>>, top_n |-> {}] }

InstanceInit ==
    /\ reference \in ReferenceInputs
    /\ vectorizer = Unfitted
    /\ first_ranked = {}
    /\ calls = 0
    /\ between = 0
    /\ RankIdle
    /\ ScoreIdle
    /\ ParseIdle
    /\ BulkIdle
    /\ SessionIdle
    /\ ExperienceIdle
    /\ clock = 0
    /\ TextIdle

\* one rank_candidates call on the instance
Call(input, out) ==
    /\ resumes' = input.resumes
    /\ job_description' = input.job_description
    /\ top_n' = input.top_n
    /\ ranked' = out.ranked
    /\ vectorizer' = out.vectorizer
    /\ calls' = calls + 1
    /\ UNCHANGED <<reference, textVars, scoreVars, parseVars, bulkVars, sessionVars,
                   experienceVars, clock>>

RankReference ==
    /\ calls < MaxCalls
    /\ Call(reference,
            RankOnInstance(vectorizer, reference.resumes,
                           reference.job_description, reference.top_n))
    /\ first_ranked' = IF first_ranked = {} THEN {ranked'} ELSE first_ranked
    /\ rpc' = "reference"
    /\ UNCHANGED between

RankOther ==
    /\ calls < MaxCalls
    /\ \E input \in OtherInputs :
           Call(input,
                RankOnInstance(vectorizer, input.resumes,
                               input.job_description, input.top_n))
    /\ between' = IF first_ranked = {} THEN between ELSE between + 1
    /\ rpc' = "other"
    /\ UNCHANGED first_ranked

InstanceNext == RankReference \/ RankOther

SpecInstance == InstanceInit /\ [][InstanceNext]_vars

(***************************************************************************)
(* Specification of the format dispatch: a file is drawn at the start and  *)
(* parse_resume is applied to it.                                          *)
(***************************************************************************)
Suffixes ==
    { ".pdf", ".PDF", ".docx", ".Docx", ".DOCX", ".doc", ".DOC", ".txt",
      ".png", "" }

FileContents ==
    { r \in RankResumes : r.contact.name \in {"Chen Wu", "Dee Park"} }

ParseFiles ==
    { [name |-> n, suffix |-> x, readable |-> b, small |-> TRUE,
       content |-> c] :
        n \in {"cv", "resume"}, x \in Suffixes, b \in BOOLEAN,
        c \in FileContents }

ParseInit ==
    /\ file_path \in ParseFiles
    /\ parsed = [raised |-> FALSE, extractor |-> "none"]
    /\ extractions = <<>>
    /\ ppc = "ready"
    /\ clock = 0
    /\ InstanceIdle
    /\ SessionIdle
    /\ ExperienceIdle
    /\ ScoreIdle
    /\ RankIdle
    /\ BulkIdle
    /\ TextIdle

Parse ==
    /\ ppc = "ready"
    /\ parsed' = ParseResume(file_path, clock)
    /\ extractions' = IF parsed'.extractor = "none" THEN extractions
                      ELSE Append(extractions, parsed'.extractor)
    /\ clock' = clock + 1
    /\ ppc' = "parsed"
    /\ UNCHANGED <<instanceVars, sessionVars, experienceVars, textVars>>
    /\ UNCHANGED <<file_path, scoreVars, rankVars, bulkVars>>

ParseNext == Parse

SpecParse == ParseInit /\ [][ParseNext]_vars

(***************************************************************************)
(* Specification of the batch parse: process_bulk_resumes extracts the     *)
(* archive, submits one parse_single_resume per file to a pool of          *)
(* max_workers threads and collects the futures with as_completed.         *)
(***************************************************************************)
MaxFiles == 3
MaxWorkers == 2

\* the files an archive can hold: two readable resumes, two the extractors
\* cannot read, one over the size limit and one of another format
ZipEntries ==
    LET chen == CHOOSE r \in FileContents : r.contact.name = "Chen Wu"
        dee == CHOOSE r \in FileContents : r.contact.name = "Dee Park"
    IN  { [name |-> "chen", suffix |-> ".pdf", readable |-> TRUE,
           small |-> TRUE, content |-> chen],
          [name |-> "dee", suffix |-> ".Docx", readable |-> TRUE,
           small |-> TRUE, content |-> dee],
          [name |-> "legacy", suffix |-> ".doc", readable |-> FALSE,
           small |-> TRUE, content |-> chen],
          [name |-> "broken", suffix |-> ".pdf", readable |-> FALSE,
           small |-> TRUE, content |-> dee],
          [name |-> "scan", suffix |-> ".PDF", readable |-> TRUE,
           small |-> FALSE, content |-> dee],
          [name |-> "notes", suffix |-> ".txt", readable |-> TRUE,
           small |-> TRUE, content |-> chen] }

\* the listings of an extracted archive: its files are distinct
ZipListings ==
    { e \in SeqsUpTo(ZipEntries, MaxFiles) :
        \A a, b \in 1..Len(e) : e[a] = e[b] => a = b }

Indices == 1..Len(file_paths)

Running == { i \in Indices : futures[i] = "running" }

\* the orders in which a set of futures can be listed
Orders(S) ==
    { q \in [1..Cardinality(S) -> S] :
        \A a, b \in 1..Cardinality(S) : q[a] = q[b] => a = b }

BulkInit ==
    /\ uploaded_zip \in
           { [ok |-> FALSE, entries |-> <<>>] }
           \cup { [ok |-> TRUE, entries |-> e] : e \in ZipListings }
    /\ max_workers \in 1..MaxWorkers
    /\ file_paths = <<>>
    /\ futures = <<>>
    /\ outcomes = <<>>
    /\ completed = <<>>
    /\ results = NewResults(<<>>)
    /\ processed = 0
    /\ bpc = "uploaded"
    /\ clock = 0
    /\ InstanceIdle
    /\ SessionIdle
    /\ ExperienceIdle
    /\ ScoreIdle
    /\ RankIdle
    /\ ParseIdle
    /\ TextIdle

\* process_bulk_resumes: extract_zip
Extract ==
    /\ bpc = "uploaded"
    /\ file_paths' = ExtractZip(uploaded_zip)
    /\ bpc' = "extracted"
    /\ UNCHANGED <<instanceVars, sessionVars, experienceVars, textVars>>
    /\ UNCHANGED <<uploaded_zip, max_workers, futures, outcomes, completed,
                   results, processed, clock, scoreVars, rankVars, parseVars>>

\* process_bulk_resumes: "if not file_paths: return"
NoFiles ==
    /\ bpc = "extracted"
    /\ file_paths = <<>>
    /\ bpc' = "rejected"
    /\ UNCHANGED <<instanceVars, sessionVars, experienceVars, textVars>>
    /\ UNCHANGED <<uploaded_zip, file_paths, max_workers, futures, outcomes,
                   completed, results, processed, clock, scoreVars, rankVars,
                   parseVars>>

\* parse_bulk_resumes up to the end of the submit comprehension
Submit ==
    /\ bpc = "extracted"
    /\ file_paths # <<>>
    /\ results' = NewResults(file_paths)
    /\ processed' = 0
    /\ futures' = [i \in Indices |-> "pending"]
    /\ outcomes' = [i \in Indices |-> NoOutcome]
    /\ bpc' = "submitted"
    /\ UNCHANGED <<instanceVars, sessionVars, experienceVars, textVars>>
    /\ UNCHANGED <<uploaded_zip, file_paths, max_workers, completed, clock,
                   scoreVars, rankVars, parseVars>>

\* a free pool thread takes the oldest queued work item
StartParse(i) ==
    /\ bpc \in {"submitted", "collecting"}
    /\ futures[i] = "pending"
    /\ \A j \in 1..(i - 1) : futures[j] # "pending"
    /\ Cardinality(Running) < max_workers
    /\ futures' = [futures EXCEPT ![i] = "running"]
    /\ UNCHANGED <<instanceVars, sessionVars, experienceVars, textVars>>
    /\ UNCHANGED <<uploaded_zip, file_paths, max_workers, outcomes, completed,
                   results, processed, bpc, clock, scoreVars, rankVars,
                   parseVars>>

\* the thread finishes parse_single_resume and sets the future's result;
\* once as_completed waits, the future is queued in finishing order
FinishParse(i) ==
    /\ bpc \in {"submitted", "collecting"}
    /\ futures[i] = "running"
    /\ outcomes' = [outcomes EXCEPT
                       ![i] = ParseSingleResume(file_paths[i], clock)]
    /\ futures' = [futures EXCEPT ![i] = "finished"]
    /\ completed' = IF bpc = "collecting" THEN Append(completed, i)
                    ELSE completed
    /\ clock' = clock + 1
    /\ UNCHANGED <<instanceVars, sessionVars, experienceVars, textVars>>
    /\ UNCHANGED <<uploaded_zip, file_paths, max_workers, results, processed,
                   bpc, scoreVars, rankVars, parseVars>>

\* as_completed starts: the futures already finished are yielded first,
\* in the iteration order of a set
AsCompleted ==
    /\ bpc = "submitted"
    /\ completed' \in Orders({ i \in Indices : futures[i] = "finished" })
    /\ bpc' = "collecting"
    /\ UNCHANGED <<instanceVars, sessionVars, experienceVars, textVars>>
    /\ UNCHANGED <<uploaded_zip, file_paths, max_workers, futures, outcomes,
                   results, processed, clock, scoreVars, rankVars, parseVars>>

\* one iteration of "for future in as_completed(...)"
Collect ==
    /\ bpc = "collecting"
    /\ completed # <<>>
    /\ processed' = processed + 1
    /\ results' = Collected(results, outcomes[Head(completed)])
    /\ completed' = Tail(completed)
    /\ UNCHANGED <<instanceVars, sessionVars, experienceVars, textVars>>
    /\ UNCHANGED <<uploaded_zip, file_paths, max_workers, futures, outcomes,
                   bpc, clock, scoreVars, rankVars, parseVars>>

\* every future has been yielded: the pool shuts down, results is returned
Return ==
    /\ bpc = "collecting"
    /\ completed = <<>>
    /\ \A i \in Indices : futures[i] = "finished"
    /\ bpc' = "done"
    /\ UNCHANGED <<instanceVars, sessionVars, experienceVars, textVars>>
    /\ UNCHANGED <<uploaded_zip, file_paths, max_workers, futures, outcomes,
                   completed, results, processed, clock, scoreVars, rankVars,
                   parseVars>>

BulkNext ==
    \/ Extract
    \/ NoFiles
    \/ Submit
    \/ \E i \in Indices : StartParse(i)
    \/ \E i \in Indices : FinishParse(i)
    \/ AsCompleted
    \/ Collect
    \/ Return

SpecBulk == BulkInit /\ [][BulkNext]_vars

\* the pool threads and the collecting thread all keep running
SpecBulkFair == SpecBulk /\ WF_vars(BulkNext)

(***************************************************************************)
(* Specification: the application session of app2.py, without a database   *)
(* (db_available is False).  The handlers are the Parse All Resumes        *)
(* button, the Remove button of a parsed resume, the job description text  *)
(* area, the Match Candidates button and the Clear All Data button.        *)
(***************************************************************************)
MaxUploads == 2

\* the files one click on Parse All Resumes can bring
SessionUploads ==
    LET file(name, suffix) ==
            CHOOSE f \in ZipEntries : f.name = name /\ f.suffix = suffix
    IN  { << file("chen", ".pdf") >>,
          << file("broken", ".pdf"), file("dee", ".Docx") >> }

SessionJobTexts == RankJobTexts \cup { << " " >> }

\* the loop of parse_uploaded_files: each file is written to temp_<name>
\* and parsed; a record gets the uploaded name and is appended, a file that
\* raises is reported and skipped
RECURSIVE ParseUploadedFiles(_, _, _)
Uploaded(list, f, r) ==
    IF r.raised THEN list
    ELSE Append(list, [filename |-> FileName(f)] @@ r.data)

ParseUploadedFiles(list, uploaded_files, now) ==
    IF uploaded_files = <<>> THEN list
    ELSE ParseUploadedFiles(
             Uploaded(list, Head(uploaded_files),
                      ParseResume([Head(uploaded_files) EXCEPT
                                       !.name = "temp_" \o @], now)),
             Tail(uploaded_files), now)

SessionInit ==
    /\ parsed_resumes = <<>>
    /\ session_job_description = <<>>
    /\ ranked_candidates = <<>>
    /\ apc = "start"
    /\ clock = 0
    /\ ScoreIdle
    /\ RankIdle
    /\ ParseIdle
    /\ BulkIdle
    /\ InstanceIdle
    /\ ExperienceIdle
    /\ TextIdle

\* parse_uploaded_files
UploadResumes ==
    /\ clock < MaxUploads
    /\ \E uploaded_files \in SessionUploads :
           parsed_resumes' =
               ParseUploadedFiles(parsed_resumes, uploaded_files, clock)
    /\ clock' = clock + 1
    /\ apc' = "upload"
    /\ UNCHANGED <<session_job_description, ranked_candidates>>
    /\ UNCHANGED <<textVars, scoreVars, rankVars, parseVars, bulkVars, instanceVars,
                   experienceVars>>

\* remove_resume
RemoveResume ==
    /\ \E index \in 1..Len(parsed_resumes) :
           parsed_resumes' =
               SubSeq(parsed_resumes, 1, index - 1)
                   \o SubSeq(parsed_resumes, index + 1, Len(parsed_resumes))
    /\ apc' = "remove"
    /\ UNCHANGED <<session_job_description, ranked_candidates, clock>>
    /\ UNCHANGED <<textVars, scoreVars, rankVars, parseVars, bulkVars, instanceVars,
                   experienceVars>>

\* the text area of page_job_description: its value is stored on every run
EditJobDescription ==
    /\ \E text \in SessionJobTexts :
           /\ text # session_job_description
           /\ session_job_description' = text
    /\ apc' = "edit"
    /\ UNCHANGED <<parsed_resumes, ranked_candidates, clock>>
    /\ UNCHANGED <<textVars, scoreVars, rankVars, parseVars, bulkVars, instanceVars,
                   experienceVars>>

\* the Match Candidates button: match_candidates unless there is no resume
\* or the description is blank
MatchCandidates ==
    /\ ranked_candidates' =
           IF parsed_resumes = <<>> \/ Strip(session_job_description) = <<>>
           THEN ranked_candidates
           ELSE RankCandidates(parsed_resumes, session_job_description, {})
    /\ apc' = "match"
    /\ UNCHANGED <<parsed_resumes, session_job_description, clock>>
    /\ UNCHANGED <<textVars, scoreVars, rankVars, parseVars, bulkVars, instanceVars,
                   experienceVars>>

\* clear_all_data
ClearAllData ==
    /\ parsed_resumes' = <<>>
    /\ ranked_candidates' = <<>>
    /\ session_job_description' = <<>>
    /\ apc' = "clear"
    /\ UNCHANGED clock
    /\ UNCHANGED <<textVars, scoreVars, rankVars, parseVars, bulkVars, instanceVars,
                   experienceVars>>

SessionNext ==
    \/ UploadResumes
    \/ RemoveResume
    \/ EditJobDescription
    \/ MatchCandidates
    \/ ClearAllData

SpecSession == SessionInit /\ [][SessionNext]_vars

(***************************************************************************)
(* Properties of the ranker                                                *)
(***************************************************************************)
IsPrefix(p, q) == Len(p) <= Len(q) /\ p = SubSeq(q, 1, Len(p))

\* the resumes behind the ranked candidates whose overall score is v
RankedWithScore(v) ==
    LET tie == SelectSeq(ranked, LAMBDA c : c.overall_score = v)
    IN  [i \in 1..Len(tie) |-> tie[i].resume_data]

\* the input resumes that are behind some ranked candidate of score v
InputWithScore(v) ==
    SelectSeq(resumes,
              LAMBDA r : \E i \in 1..Len(ranked) :
                             /\ ranked[i].overall_score = v
                             /\ ranked[i].resume_data = r)

\* C4: the ranking is in non-increasing order of overall_score, and the
\* candidates of equal overall_score stand in their input order.
C4_StableDescending ==
    rpc = "ranked" =>
        /\ \A i \in 1..Len(ranked) : \A k \in 1..Len(ranked) :
               i < k => ranked[i].overall_score >= ranked[k].overall_score
        /\ \A i \in 1..Len(ranked) :
               IsPrefix(RankedWithScore(ranked[i].overall_score),
                        InputWithScore(ranked[i].overall_score))

\* a ranking of three resumes that had to be reordered and in which two
\* different resumes tie
C4_Witness ==
    /\ rpc = "ranked"
    /\ Len(ranked) = 3
    /\ [i \in 1..Len(ranked) |-> ranked[i].resume_data] # resumes
    /\ \E i \in 1..Len(ranked) : \E k \in 1..Len(ranked) :
           /\ i < k
           /\ ranked[i].overall_score = ranked[k].overall_score
           /\ ranked[i].resume_data # ranked[k].resume_data

\* the ranking of all resumes, before truncation
FullRanking ==
    SortDesc([i \in 1..Len(resumes) |->
                 Candidate(resumes[i], ParseJobDescription(job_description))])

\* C7: with top_n given the result is exactly the first
\* min(top_n, number of resumes) entries of the full ranking; without it
\* the result has one entry per input resume.
C7_Original ==
    rpc = "ranked" =>
        IF top_n = {}
        THEN ranked = FullRanking /\ Len(ranked) = Len(resumes)
        ELSE LET n == CHOOSE t \in top_n : TRUE
             IN  ranked = SubSeq(FullRanking, 1, Min2(n, Len(resumes)))

CandidateKeysClaimed ==
    {"name", "email", "phone", "overall_score", "skills_score",
     "experience_score", "education_score", "keywords_score", "semantic_score",
     "matched_skills", "missing_skills", "explanation"}

\* C8 as stated: every candidate record carries name, email, phone, the
\* overall score, all five sub-scores, the matched and missing skills and
\* the explanation.
C8_Original ==
    rpc = "ranked" =>
        \A i \in 1..Len(ranked) : CandidateKeysClaimed \subseteq DOMAIN ranked[i]

\* C8 amended: every candidate record carries the resume's name, email and
\* phone, the overall score and the three sub-scores skills, experience and
\* education (each rounded to two decimals), the matched and missing skill
\* sets and the explanation; it carries no keywords or semantic sub-score.
C8_Amended ==
    rpc = "ranked" =>
        LET job_data == ParseJobDescription(job_description)
        IN
        \A i \in 1..Len(ranked) :
            LET c == ranked[i]
                r == c.resume_data
                sc == CalculateMatchScore(r, job_data)
            IN  /\ DOMAIN c \cap CandidateKeysClaimed
                      = CandidateKeysClaimed \ {"keywords_score", "semantic_score"}
                /\ r \in RangeOf(resumes)
                /\ c.name = r.contact.name
                /\ c.email = r.contact.email
                /\ c.phone = r.contact.phone
                /\ c.overall_score = Round2(sc.overall_score)
                /\ c.skills_score = Round2(sc.skills_score)
                /\ c.experience_score = Round2(sc.experience_score)
                /\ c.education_score = Round2(sc.education_score)
                /\ c.matched_skills = sc.matched_skills
                /\ c.missing_skills = sc.missing_skills
                /\ c.explanation = sc.explanation

\* a ranking with at least two candidates, one of them with matched and
\* missing skills
C8_Witness ==
    /\ rpc = "ranked"
    /\ Len(ranked) >= 2
    /\ \E i \in 1..Len(ranked) :
           ranked[i].matched_skills # {} /\ ranked[i].missing_skills # {}

\* C16: the call leaves the list of resumes it was given as it was, every
\* record, the length and the order; sorting and truncation show only in the
\* list returned
C16_InputUnchanged ==
    [][(rpc = "ready" /\ rpc' = "ranked") => resumes' = resumes]_vars

\* a call that returned fewer candidates than it was given resumes, the
\* first one not the first resume of the input, which is still in place
C16_Witness ==
    /\ rpc = "ranked"
    /\ Len(resumes) = 3
    /\ top_n = {2}
    /\ Len(ranked) = 2
    /\ ranked[1].resume_data # resumes[1]
    /\ ranked[1].resume_data \in {resumes[2], resumes[3]}

(***************************************************************************)
(* Resume text: ResumeParser._split_into_sections and _extract_name        *)
(***************************************************************************)
\* section_patterns, in the order of the dictionary: for every section the
\* one-word alternatives of its pattern and the two-word alternatives, whose
\* words are separated by white space (\s+)
SectionPatterns ==
    << [name |-> "contact", terms |-> {"contact"},
        phrases |-> {<<"personal", "information">>,
                     <<"contact", "information">>}],
       [name |-> "summary", terms |-> {"summary", "objective", "profile"},
        phrases |-> {<<"about", "me">>, <<"professional", "summary">>}],
       [name |-> "experience", terms |-> {"experience", "employment"},
        phrases |-> {<<"work", "experience">>, <<"work", "history">>,
                     <<"professional", "experience">>}],
       [name |-> "education",
        terms |-> {"education", "academic", "qualification", "university",
                   "college"},
        phrases |-> {}],
       [name |-> "skills", terms |-> {"skills", "expertise", "proficiency"},
        phrases |-> {<<"technical", "skills">>, <<"core", "competencies">>}],
       [name |-> "projects", terms |-> {"projects"},
        phrases |-> {<<"personal", "projects">>, <<"academic", "projects">>}],
       [name |-> "certifications",
        terms |-> {"certification", "certificates", "licenses"},
        phrases |-> {}],
       [name |-> "achievements",
        terms |-> {"achievement", "awards", "honors", "accomplishments"},
        phrases |-> {}],
       [name |-> "languages", terms |-> {"languages"},
        phrases |-> {<<"language", "proficiency">>}] >>

\* a two-word alternative is found where a piece ends with its first word,
\* a later piece starts with its second word and only blanks lie between
\* (no word of the model's vocabulary ends with a first word without being it)
PhraseFound(phrase, s) ==
    \E i \in 1..Len(s) : \E k \in (i + 2)..Len(s) :
        /\ s[i] = phrase[1]
        /\ InWord(phrase[2], s[k]) /\ OffsetInWord(phrase[2], s[k]) = 0
        /\ \A h \in (i + 1)..(k - 1) : s[h] = Space

\* re.search(pattern, line_lower, re.IGNORECASE)
PatternFound(pattern, s) ==
    \/ \E t \in pattern.terms : InStr(t, s)
    \/ \E phrase \in pattern.phrases : PhraseFound(phrase, s)

\* the section whose pattern is the first to be found in the line, "" if none
SectionOf(line) ==
    LET line_lower == Strip(LowerStr(line))
        found == { i \in 1..Len(SectionPatterns) :
                       PatternFound(SectionPatterns[i], line_lower) }
    IN  IF found = {} THEN ""
        ELSE SectionPatterns[CHOOSE i \in found : \A h \in found : i <= h].name

\* sections[key] = value
Stored(dict, key, value) ==
    [k \in DOMAIN dict \cup {key} |-> IF k = key THEN value ELSE dict[k]]

\* a loop that leaves the header line in the section it opens
SectionStep_HeaderKept(st, line) ==
    IF SectionOf(line) # ""
    THEN [sections |-> IF st.current_text # <<>>
                       THEN Stored(st.sections, st.current_section,
                                   Join(NL, st.current_text))
                       ELSE st.sections,
          current_section |-> SectionOf(line),
          current_text |-> <<line>>]
    ELSE IF Strip(line) # <<>>
    THEN [st EXCEPT !.current_text = Append(@, line)]
    ELSE st

\* the body of the loop over the lines, for one line
SectionStep(st, line) ==
    IF SectionOf(line) # ""
    THEN [sections |-> IF st.current_text # <<>>
                       THEN Stored(st.sections, st.current_section,
                                   Join(NL, st.current_text))
                       ELSE st.sections,
          current_section |-> SectionOf(line),
          current_text |-> <<>>]
    ELSE IF Strip(line) # <<>>
    THEN [st EXCEPT !.current_text = Append(@, line)]
    ELSE st

RECURSIVE SectionLoop(_, _)
SectionLoop(st, lines) ==
    IF lines = <<>> THEN st
    ELSE SectionLoop(SectionStep(st, lines[1]), Tail(lines))

\* _split_into_sections
SplitIntoSections(text) ==
    LET st == SectionLoop([sections |-> <<>>, current_section |-> "unknown",
                           current_text |-> <<>>],
                          SplitLines(text))
    IN  IF st.current_text # <<>>
        THEN Stored(st.sections, st.current_section, Join(NL, st.current_text))
        ELSE st.sections

\* the entities spaCy labels PERSON, among the lines of the model's vocabulary
PersonEntities == { <<"Asha", " ", "Rao">> }

\* word[0].isupper(), for the words of the model's vocabulary
UpperInitial(w) ==
    w \in DOMAIN LowerMap \ {".PDF", ".Docx", ".DOCX", ".DOC"}

\* _extract_name, for the first of the lines it looks at
RECURSIVE NameFrom(_)
NameFrom(lines) ==
    IF lines = <<>> THEN <<"Name Not Found">>
    ELSE LET line == Strip(lines[1])
             words == WordsOf(line)
         IN  IF StrLen(line) > 3 /\ StrLen(line) < 50
             THEN IF line \in PersonEntities THEN line
                  ELSE IF /\ Len(words) >= 2 /\ Len(words) <= 4
                          /\ \A i \in 1..Len(words) : UpperInitial(words[i])
                  THEN line
                  ELSE NameFrom(Tail(lines))
             ELSE NameFrom(Tail(lines))

\* _extract_name
ExtractName(text) ==
    LET lines == SplitLines(text)
    IN  NameFrom(SubSeq(lines, 1, Min2(5, Len(lines))))

\* _load_skills_database: the categories in the order of the dictionary
TechnicalSkills ==
    << [category |-> "programming",
        skills |-> <<"Python", "Java", "JavaScript", "C++", "C#", "Ruby",
                    "Go", "Rust", "PHP", "Swift", "Kotlin", "TypeScript",
                    "Scala", "R", "MATLAB">>],
       [category |-> "web",
        skills |-> <<"HTML", "CSS", "React", "Angular", "Vue.js", "Node.js",
                    "Express", "Django", "Flask", "FastAPI", "Spring Boot",
                    "ASP.NET", "jQuery">>],
       [category |-> "database",
        skills |-> <<"SQL", "MySQL", "PostgreSQL", "MongoDB", "Redis",
                    "Cassandra", "Oracle", "SQL Server", "DynamoDB", "Neo4j",
                    "Elasticsearch">>],
       [category |-> "ml_ai",
        skills |-> <<"Machine Learning", "Deep Learning", "TensorFlow",
                    "PyTorch", "Keras", "scikit-learn", "NLP",
                    "Computer Vision", "OpenCV", "NLTK", "spaCy">>],
       [category |-> "cloud",
        skills |-> <<"AWS", "Azure", "Google Cloud", "Docker", "Kubernetes",
                    "Jenkins", "CI/CD", "Terraform", "Ansible", "Git",
                    "GitHub", "GitLab">>],
       [category |-> "data_science",
        skills |-> <<"Data Analysis", "Pandas", "NumPy", "Matplotlib",
                    "Seaborn", "Tableau", "Power BI", "Apache Spark",
                    "Hadoop", "ETL">>],
       [category |-> "soft_skills",
        skills |-> <<"Leadership", "Communication", "Problem Solving",
                    "Team Work", "Project Management", "Agile", "Scrum",
                    "Critical Thinking">>] >>

\* the skills of the list that the text names as a word of its own
RECURSIVE SkillsNamed(_, _)
SkillsNamed(s, skills) ==
    IF skills = <<>> THEN <<>>
    ELSE LET low == SkillLower(skills[1])
             rest == SkillsNamed(s, Tail(skills))
         IN  IF SkillNamed(skills[1], s)
             THEN <<skills[1]>> \o rest
             ELSE rest

\* ResumeParser._extract_skills: for every category with a skill that the text
\* names, the skills of the category that it names
ResumeExtractSkills(text) ==
    LET s == LowerStr(text)
        found == { i \in 1..Len(TechnicalSkills) :
                       SkillsNamed(s, TechnicalSkills[i].skills) # <<>> }
    IN  [c \in { TechnicalSkills[i].category : i \in found } |->
            SkillsNamed(s, (CHOOSE t \in RangeOf(TechnicalSkills) :
                                t.category = c).skills)]

(***************************************************************************)
(* Work entries: ResumeParser._extract_experience and _extract_dates       *)
(***************************************************************************)
\* the pieces the first date pattern matches, each with the four digits in a
\* row that the third pattern finds inside it, if any
NumericDates == { <<"01/02/2020", <<"2020">> >>, <<"01/02/20", <<>> >> }

MonthWords == {"jan", "dec"}

PresentWords == {"present", "current", "now", "ongoing"}

\* the pieces that are four digits
FourDigits(p) == \E y \in YearPieces : y[1] = p /\ ToString(y[2]) = p

\* the elements of s at the places with property P, each mapped by f
Matches(s, P(_), f(_)) ==
    LET at == SelectSeq([i \in 1..Len(s) |-> i], P)
    IN  [k \in 1..Len(at) |-> f(at[k])]

\* the end of the match of the second date pattern that starts at place i:
\* a month word, then blanks or commas, then four digits; 0 when none
MonthMatchEnd(s, i) ==
    IF Lower(s[i]) \notin MonthWords THEN 0
    ELSE LET ends == { k \in (i + 1)..Len(s) :
                           /\ FourDigits(s[k])
                           /\ \A h \in (i + 1)..(k - 1) :
                                  s[h] \in {Space, NL, ","} }
         IN  IF ends = {} THEN 0 ELSE CHOOSE k \in ends : TRUE

\* _extract_dates: the matches of the four date_patterns, pattern by pattern
ExtractDates(s) ==
    Matches(s, LAMBDA i : \E d \in NumericDates : d[1] = s[i],
            LAMBDA i : <<s[i]>>)
    \o Matches(s, LAMBDA i : MonthMatchEnd(s, i) # 0,
               LAMBDA i : SubSeq(s, i, MonthMatchEnd(s, i)))
    \o Matches(s, LAMBDA i : \/ FourDigits(s[i])
                             \/ \E d \in NumericDates :
                                    d[1] = s[i] /\ d[2] # <<>>,
               LAMBDA i : IF FourDigits(s[i]) THEN <<s[i]>>
                          ELSE (CHOOSE d \in NumericDates : d[1] = s[i])[2])
    \o Matches(s, LAMBDA i : Lower(s[i]) \in PresentWords,
               LAMBDA i : <<s[i]>>)

\* _is_date_line
IsDateLine(line) == ExtractDates(line) # <<>> /\ StrLen(Strip(line)) < 50

\* re.split(r'\n(?=[A-Z])', text): the text is cut at every line break that a
\* capital letter follows
RECURSIVE SplitEntries(_)
SplitEntries(s) ==
    LET cuts == { i \in 1..(Len(s) - 1) : s[i] = NL /\ UpperInitial(s[i + 1]) }
    IN  IF cuts = {} THEN <<s>>
        ELSE LET k == CHOOSE i \in cuts : \A h \in cuts : i <= h
             IN  <<SubSeq(s, 1, k - 1)>> \o SplitEntries(SubSeq(s, k + 1, Len(s)))

\* the places of first_line where the split pattern matches: a bar or a dash,
\* or the word 'at' between blanks
Separators(first_line) ==
    { i \in 1..Len(first_line) :
          \/ first_line[i] \in {"|", "-"}
          \/ /\ first_line[i] = "at"
             /\ i > 1 /\ first_line[i - 1] = Space
             /\ i < Len(first_line) /\ first_line[i + 1] = Space }

\* position and company of an entry, from its first line
PositionAndCompany(first_line) ==
    IF /\ \/ \E i \in 1..Len(first_line) : first_line[i] \in {"|", "-"}
          \/ InStr("at", LowerStr(first_line))
       /\ Separators(first_line) # {}
    THEN LET k == CHOOSE i \in Separators(first_line) :
                      \A h \in Separators(first_line) : i <= h
         IN  [position |-> Strip(SubSeq(first_line, 1, k - 1)),
              company |-> Strip(SubSeq(first_line, k + 1, Len(first_line)))]
    ELSE [position |-> Strip(first_line), company |-> <<>>]

\* the body of the loop of _extract_experience for an entry that is not
\* skipped
EntryOf(entry, now) ==
    LET lines == SplitLines(entry)
        named == PositionAndCompany(lines[1])
        dates == ExtractDates(entry)
        start_date == IF dates = <<>> THEN <<>> ELSE dates[1]
        end_date == IF dates = <<>> THEN <<>>
                    ELSE IF Len(dates) >= 2 THEN dates[2]
                    ELSE <<"Present">>
        kept == SelectSeq([i \in 1..(Len(lines) - 1) |-> Strip(lines[i + 1])],
                          LAMBDA l : l # <<>> /\ ~IsDateLine(l))
    IN  [company |-> named.company, position |-> named.position,
         start_date |-> start_date, end_date |-> end_date,
         duration |-> CalculateDuration(start_date, end_date, now),
         description |-> Join(Space, kept), location |-> <<>>]

\* _extract_experience: entries shorter than 20 characters and entries with
\* neither position nor company are left out
ExtractWorkEntries(text, now) ==
    LET long == SelectSeq(SplitEntries(text),
                          LAMBDA e : StrLen(Strip(e)) >= 20)
        made == [i \in 1..Len(long) |-> EntryOf(long[i], now)]
    IN  SelectSeq(made, LAMBDA exp : exp.position # <<>> \/ exp.company # <<>>)

(***************************************************************************)
(* Specification of the text parsers: a text is drawn at the start and    *)
(* the parser it is handed to is applied to it.                            *)
(***************************************************************************)
MaxLines == 4
MaxBlankLines == 5

\* lines of a resume: section headers, lines of a body, a blank line and a
\* line of a body that names a university
SectionLines ==
    { <<"Experience">>, <<"About", " ", "Me">>,
      <<"Built", " ", "pipelines">>, <<"Led", " ", "analytics">>,
      <<"State", " ", "University">>, <<" ">> }

\* lines at the top of a resume
NameLines ==
    { <<"Asha", " ", "Rao">>, <<"Resume">>, <<"curriculum", " ", "vitae">>,
      <<" ">> }

\* lines at the top of a job posting: a substantial line, lines with a title
\* indicator (one of them short, one of them too long) and a short line
TitleLines ==
    { <<"senior", " ", "python", " ", "developer">>,
      <<"Position", " ", "engineer">>, <<"role">>,
      <<"position", " ", Dashes>>, <<"team">> }

\* k empty lines
Blanks(k) == [i \in 1..k |-> <<>>]

\* the texts that start with up to MaxBlankLines empty lines, followed by up
\* to two of the given lines
Headed(lines) ==
    { Join(NL, Blanks(k) \o q) :
          k \in 0..MaxBlankLines, q \in SeqsUpTo(lines, 2) \ { <<>> } }

ResumeTexts ==
    { Join(NL, q) : q \in SeqsUpTo(SectionLines, MaxLines) }
    \cup Headed(NameLines)

\* postings that name one skill as required or as preferred
SkillPostings ==
    { <<skill, " ", term>> :
          skill \in {"Python", "docker", "gcp", "vue", "graphql"},
          term \in {"required", "preferred"} }

PostingTexts == Headed(TitleLines) \cup SkillPostings

\* experience sections of one entry: a first line with position and company,
\* then, on the same line or the next, a start date that an end date or a
\* present marker may follow, and possibly a line of description
FirstLines ==
    { <<"Engineer", " ", "at", " ", "Acme">>,
      <<"Senior", " ", "Engineer", " ", "|", " ", "Acme", " ", "Cloud">> }

StartDates ==
    { <<"2019">>, <<"Jan", " ", "2020">>, <<"01/02/2020">>, <<"01/02/20">> }

PresentMarkers == {"Present", "Current", "Now", "Ongoing"}

DateRanges ==
    StartDates
    \cup { start \o <<" ", "-", " ", end>> :
              start \in StartDates, end \in PresentMarkers \cup {"2022"} }

ExperienceTexts ==
    { first \o sep \o range \o rest :
          first \in FirstLines, sep \in { <<NL>>, <<",", " ">> },
          range \in DateRanges,
          rest \in { <<>>, <<NL, "built", " ", "pipelines">> } }

TextInit ==
    /\ \/ \E t \in ResumeTexts : document = [kind |-> "resume", text |-> t]
       \/ \E t \in PostingTexts : document = [kind |-> "posting", text |-> t]
       \/ \E t \in ExperienceTexts :
              document = [kind |-> "experience", text |-> t]
    /\ sections = <<>>
    /\ contact_name = <<>>
    /\ job_title = <<>>
    /\ work_entries = <<>>
    /\ job_skills = << <<>>, <<>> >>
    /\ tpc = "ready"
    /\ ScoreIdle
    /\ RankIdle
    /\ ParseIdle
    /\ BulkIdle
    /\ InstanceIdle
    /\ SessionIdle
    /\ ExperienceIdle
    /\ clock = 0

\* ResumeParser._parse_text, lines 166 and 169
ParseText ==
    /\ tpc = "ready"
    /\ document.kind = "resume"
    /\ sections' = SplitIntoSections(document.text)
    /\ contact_name' = ExtractName(document.text)
    /\ tpc' = "parsed"
    /\ UNCHANGED <<document, job_title, work_entries, job_skills, clock>>
    /\ UNCHANGED <<scoreVars, rankVars, parseVars, bulkVars, instanceVars,
                   sessionVars, experienceVars>>

\* JobDescriptionParser.parse_job_description, lines 60 and 66
ParsePosting ==
    /\ tpc = "ready"
    /\ document.kind = "posting"
    /\ job_title' = ExtractJobTitle(document.text)
    /\ job_skills' = ExtractSkills(document.text)
    /\ tpc' = "parsed"
    /\ UNCHANGED <<document, sections, contact_name, work_entries, clock>>
    /\ UNCHANGED <<scoreVars, rankVars, parseVars, bulkVars, instanceVars,
                   sessionVars, experienceVars>>

\* ResumeParser._parse_text, line 174, for the text of the experience section
ExtractExperienceSection ==
    /\ tpc = "ready"
    /\ document.kind = "experience"
    /\ work_entries' = ExtractWorkEntries(document.text, clock)
    /\ tpc' = "parsed"
    /\ UNCHANGED <<document, sections, contact_name, job_title, job_skills,
                   clock>>
    /\ UNCHANGED <<scoreVars, rankVars, parseVars, bulkVars, instanceVars,
                   sessionVars, experienceVars>>

TextNext == ParseText \/ ParsePosting \/ ExtractExperienceSection

SpecText == TextInit /\ [][TextNext]_vars

SummaryOfBand(overall) ==
    IF overall >= 80 * Scale THEN SummaryExcellent
    ELSE IF overall >= 60 * Scale THEN SummaryGood
    ELSE IF overall >= 40 * Scale THEN SummaryModerate
    ELSE SummaryLow

\* C22 as stated: in every candidate record returned the explanation summary
\* is the template of the band of the record's own overall_score: excellent
\* from 80, good from 60, moderate from 40, low below.
C22_Original ==
    rpc = "ranked" =>
        \A i \in 1..Len(ranked) :
            ranked[i].explanation.summary = SummaryOfBand(ranked[i].overall_score)

(***************************************************************************)
(* Properties of the scorer                                                *)
(***************************************************************************)
\* the resume's skills over all categories, case-folded
ResumeSkillSet ==
    UNION { { Lower(x) : x \in resume.skills[c] } : c \in DOMAIN resume.skills }

\* the case-folded union of the job's required and preferred skills
JobSkillUnion ==
    { Lower(x) : x \in RangeOf(job.required_skills)
                        \cup RangeOf(job.preferred_skills) }

\* C1: after calculate_match_score, each of the five sub-scores and the
\* overall score lies within [0, 100].
C1_ScoresInRange ==
    spc = "scored" =>
        \A f \in {"skills_score", "experience_score", "education_score",
                   "keywords_score", "semantic_score", "overall_score"} :
            scores[f] >= 0 /\ scores[f] <= Hundred

\* a scored pair whose experience gap is more than 5 years (the penalty
\* exceeds 100) and whose skills and semantic scores are partial
C1_Witness ==
    /\ spc = "scored"
    /\ scores.experience_gap > 5 * Tenth
    /\ scores.experience_score = 0
    /\ scores.skills_score > 0 /\ scores.skills_score < Hundred
    /\ scores.semantic_score > 0 /\ scores.semantic_score < Hundred

\* the job requires exactly Python and SQL and prefers nothing
C2_Job ==
    /\ { Lower(x) : x \in RangeOf(job.required_skills) } = {"python", "sql"}
    /\ job.preferred_skills = <<>>

\* C2 as stated: with required skills {Python, SQL} and no preferred skills,
\* a resume holding both gets skills_score 100 and a resume holding only
\* Python gets 40.
C2_Original ==
    (spc = "scored" /\ C2_Job) =>
        /\ {"python", "sql"} \subseteq ResumeSkillSet
              => scores.skills_score = Hundred
        /\ ("python" \in ResumeSkillSet /\ "sql" \notin ResumeSkillSet)
              => scores.skills_score = 40 * Scale

\* C2 amended: with required skills {Python, SQL} and no preferred skills,
\* a resume holding both gets skills_score 80 (the preferred coverage counts
\* as 0 with weight 0.2) and a resume holding only Python gets 40.
C2_Amended ==
    (spc = "scored" /\ C2_Job) =>
        /\ {"python", "sql"} \subseteq ResumeSkillSet
              => scores.skills_score = 80 * Scale
        /\ ("python" \in ResumeSkillSet /\ "sql" \notin ResumeSkillSet)
              => scores.skills_score = 40 * Scale

C2_Witness ==
    /\ spc = "scored"
    /\ C2_Job
    /\ {"python", "sql"} \subseteq ResumeSkillSet
    /\ job.min_experience = 3

\* C3: matched_skills and missing_skills are disjoint and together are the
\* case-folded union of the job's required and preferred skills: matched is
\* the part of that union the resume holds, missing the part it lacks.
C3_Partition ==
    spc = "scored" =>
        /\ scores.matched_skills \cap scores.missing_skills = {}
        /\ scores.matched_skills \cup scores.missing_skills = JobSkillUnion
        /\ scores.matched_skills = JobSkillUnion \cap ResumeSkillSet
        /\ scores.missing_skills = JobSkillUnion \ ResumeSkillSet

\* a scored pair with required and preferred skills, some matched, and a
\* preferred skill missing
C3_Witness ==
    /\ spc = "scored"
    /\ job.required_skills # <<>>
    /\ scores.matched_skills # {}
    /\ \E x \in RangeOf(job.preferred_skills) :
           Lower(x) \in scores.missing_skills

\* the resume's summary and all its experience descriptions are empty
ResumeTextEmpty ==
    /\ resume.summary = <<>>
    /\ \A i \in 1..Len(resume.experience) :
           resume.experience[i].description = <<>>

\* C9: the semantic score is the default 50 whenever the resume text is
\* empty, the job text is empty, or vectorization fails.
C9_Original ==
    (/\ spc = "scored"
     /\ \/ ResumeTextEmpty
        \/ job.raw_text = <<>>
        \/ VectorizerRaises(job.raw_text,
                            Join(Space, << resume.summary,
                                 Join(Space, Descriptions(resume.experience)) >>)))
        => scores.semantic_score = 50 * Scale

\* C11: the overall score returned is 0.40 skills + 0.30 experience +
\* 0.15 education + 0.10 keywords + 0.05 semantic of the returned
\* sub-scores, with these weights also when a sub-score is at its default,
\* and the explanation step has left the scores as they were calculated
\* (the skills, experience and education scores are compared with their
\* calculations).
C11_WeightedSum ==
    spc = "scored" =>
        /\ scores.overall_score =
               (scores.skills_score * WeightSkills
                + scores.experience_score * WeightExperience
                + scores.education_score * WeightEducation
                + scores.keywords_score * WeightKeywords
                + scores.semantic_score * WeightSemantic) \div 100
        /\ scores.skills_score = SkillsScore(resume, job).score
        /\ scores.experience_score = ExperienceScore(resume, job).score
        /\ scores.education_score = EducationScore(resume, job)

\* a scored pair whose semantic score is the default 50 of a failed
\* vectorization while the other four are 100: the overall score is 97.5
C11_Witness ==
    /\ spc = "scored"
    /\ job.raw_text # <<>>
    /\ scores.semantic_score = 50 * Scale
    /\ scores.skills_score = Hundred
    /\ scores.overall_score = 975 * (Scale \div 10)
    /\ scores.explanation.summary = SummaryExcellent

\* the job names no required and no preferred skill
NoJobSkills == job.required_skills = <<>> /\ job.preferred_skills = <<>>

\* C12: if the job declares no required and no preferred skills, the
\* skills score is 100 with empty matched and missing sets, whatever
\* skills the resume has.
C12_NoSkillJob ==
    (spc = "scored" /\ NoJobSkills) =>
        /\ scores.skills_score = Hundred
        /\ scores.matched_skills = {}
        /\ scores.missing_skills = {}

\* a resume with skills scored against a job without skills that does
\* have an experience requirement
C12_Witness ==
    /\ spc = "scored"
    /\ NoJobSkills
    /\ job.min_experience > 0
    /\ ResumeSkillSet # {}
    /\ scores.skills_score = Hundred

\* C13: a resume without experience entries has total_experience_years 0,
\* and against a job with min_experience 0 its experience score is 100
\* with gap 0.
C13_NoExperience ==
    (spc = "scored" /\ resume.experience = <<>>) =>
        /\ CalculateTotalExperience(resume.experience) = 0
        /\ resume.total_experience_years = 0
        /\ job.min_experience = 0 =>
               /\ scores.experience_score = Hundred
               /\ scores.experience_gap = 0

\* a resume without experience entries scored against a job that asks
\* for skills and a degree but for no experience
C13_Witness ==
    /\ spc = "scored"
    /\ resume.experience = <<>>
    /\ job.min_experience = 0
    /\ job.required_skills # <<>>
    /\ scores.experience_score = Hundred

\* C18 as stated: against a job with min_experience m > 0 a resume with y
\* years scores 100 with gap 0 when y >= m, except that with a maximum M
\* given and y > M it scores max(70, 100 - 5 (y - M)); when y < m the gap is
\* m - y and the score max(0, 100 - 20 (m - y)).
C18_Original ==
    (spc = "scored" /\ job.min_experience > 0) =>
        LET y == resume.total_experience_years
            m == job.min_experience * Tenth
        IN  IF y >= m
            THEN /\ scores.experience_gap = 0
                 /\ scores.experience_score =
                        IF \E M \in job.max_experience : y > M * Tenth
                        THEN LET M == CHOOSE x \in job.max_experience : TRUE
                             IN  Max2(70 * Scale,
                                      Hundred - ((y - M * Tenth) * 5 * Scale)
                                                    \div Tenth)
                        ELSE Hundred
            ELSE /\ scores.experience_gap = m - y
                 /\ scores.experience_score =
                        Max2(0, Hundred - ((m - y) * 20 * Scale) \div Tenth)

\* the level the scorer's table gives the job's education requirement, 0
\* when the job has none
RequiredLevel ==
    IF Lower(job.education_required) \in DOMAIN EducationLevels
    THEN EducationLevels[Lower(job.education_required)] ELSE 0

\* C19: with resume level r and required level q in 1..5 the education
\* score is 100 if r >= q, 80 if r = q - 1, else max(50, 100 - 20 (q - r));
\* without a requirement it is 100; it is always one of 50, 60, 80, 100
C19_EducationScore ==
    spc = "scored" =>
        LET r == ResumeLevel(resume)
            q == RequiredLevel
        IN  /\ q \in 0..5
            /\ scores.education_score =
                   IF q = 0 \/ r >= q THEN Hundred
                   ELSE IF r = q - 1 THEN 80 * Scale
                   ELSE Max2(50 * Scale, Hundred - 20 * (q - r) * Scale)
            /\ scores.education_score
                   \in {50 * Scale, 60 * Scale, 80 * Scale, Hundred}

\* a resume without a recognised degree against a job that asks for a
\* bachelor: three levels short, the floor of 50 applies
C19_Witness ==
    /\ spc = "scored"
    /\ resume.education # <<>>
    /\ ResumeLevel(resume) = 0
    /\ RequiredLevel = 3
    /\ scores.education_score = 50 * Scale

\* C21: the explanation holds one primary recommendation chosen by the
\* overall score: interview from 70 on, phone screen from 50 to below 70,
\* other candidates first below 50; the phone screen is followed by one line
\* naming at most 3 of the missing skills exactly when there are missing skills
C21_Recommendation ==
    spc = "scored" =>
        LET rec == scores.explanation.recommendations
            overall == scores.overall_score
        IN  IF overall >= 70 * Scale
            THEN rec = << <<"Recommend for interview">> >>
            ELSE IF overall >= 50 * Scale
            THEN /\ Len(rec) = (IF scores.missing_skills = {} THEN 1 ELSE 2)
                 /\ rec[1] = <<"Consider for phone screen">>
                 /\ Len(rec) = 2 =>
                        /\ rec[2][1] = "Assess proficiency in"
                        /\ rec[2][2] # {}
                        /\ rec[2][2] \subseteq scores.missing_skills
                        /\ Cardinality(rec[2][2]) <= 3
            ELSE rec = << <<"Consider other candidates first">> >>

\* a phone-screen candidate with four missing skills, three of them named
C21_Witness ==
    /\ spc = "scored"
    /\ scores.overall_score >= 50 * Scale
    /\ scores.overall_score < 70 * Scale
    /\ Cardinality(scores.missing_skills) = 4
    /\ Len(scores.explanation.recommendations) = 2
    /\ Cardinality(scores.explanation.recommendations[2][2]) = 3

\* the resume with one more skill listed under a category
WithSkill(r, category, skill) ==
    [r EXCEPT !.skills[category] = @ \cup {skill}]

\* C15: with the job and the rest of the resume fixed, listing a skill the
\* job requires, under any category, never lowers skills_score
C15_RequiredSkillMonotone ==
    spc = "scored" =>
        \A skill \in RangeOf(job.required_skills) :
            \A category \in DOMAIN resume.skills :
                SkillsScore(WithSkill(resume, category, skill), job).score
                    >= scores.skills_score

\* a resume that has some skills but lacks a required one, whose skills
\* score rises when that skill is added, against a job with preferred skills
C15_Witness ==
    /\ spc = "scored"
    /\ job.preferred_skills # <<>>
    /\ ResumeSkillSet # {}
    /\ scores.skills_score > 0
    /\ \E skill \in RangeOf(job.required_skills) :
           /\ Lower(skill) \notin ResumeSkillSet
           /\ \E category \in DOMAIN resume.skills :
                  SkillsScore(WithSkill(resume, category, skill), job).score
                      > scores.skills_score

(***************************************************************************)
(* Properties of the batch parse                                           *)
(***************************************************************************)
\* parse_resume returns for this file (whatever the time of the call)
Returns(f) == ~ParseResume(f, 0).raised

FileNames == { FileName(file_paths[i]) : i \in Indices }

\* how many of the input files with this name return / raise
FilesNamed(name, returning) ==
    Cardinality({ i \in Indices :
        FileName(file_paths[i]) = name
        /\ Returns(file_paths[i]) = returning })

\* how many records of the list carry this name
RecordsNamed(list, name) ==
    Cardinality({ k \in 1..Len(list) : list[k].filename = name })

BatchOutcomeComplete ==
    /\ results.total = Len(file_paths)
    /\ results.success_count = Len(results.successful)
    /\ results.fail_count = Len(results.failed)
    /\ results.success_count + results.fail_count = results.total
    /\ \A k \in 1..Len(results.successful) :
           /\ results.successful[k].status = "success"
           /\ results.successful[k].filename \in FileNames
    /\ \A k \in 1..Len(results.failed) :
           /\ results.failed[k].status = "failed"
           /\ results.failed[k].filename \in FileNames
    /\ \A name \in FileNames :
           /\ RecordsNamed(results.successful, name) = FilesNamed(name, TRUE)
           /\ RecordsNamed(results.failed, name) = FilesNamed(name, FALSE)

\* C5: parse_bulk_resumes always returns, and when it does there is exactly
\* one outcome record per input file, in 'successful' if the file's parse
\* returned and in 'failed' if it raised, so that success_count +
\* fail_count = total; a failing file neither stops the batch nor removes
\* the record of another file.
C5_OneOutcomePerFile ==
    /\ [](bpc = "done" => BatchOutcomeComplete)
    /\ [](bpc \in {"submitted", "collecting"}
             => results.success_count + results.fail_count = processed)
    /\ (bpc = "submitted" ~> bpc = "done")

\* a batch returned in which a file that failed was parsed before a file
\* that succeeded
C5_Witness ==
    /\ bpc = "done"
    /\ results.success_count >= 1
    /\ results.fail_count >= 1
    /\ \E i, j \in Indices :
           /\ outcomes[i].status = "failed"
           /\ outcomes[j].status = "success"
           /\ outcomes[j].parsed_date > 0

NamesOf(list) == [k \in 1..Len(list) |-> list[k].filename]

InputOrder(returning) ==
    LET kept == SelectSeq(file_paths, LAMBDA f : Returns(f) = returning)
    IN  [k \in 1..Len(kept) |-> FileName(kept[k])]

\* C6: the successful and failed lists returned for a list of input files
\* are the same under every interleaving of the workers: they list the
\* files in input order, not in completion order.
C6_Original ==
    bpc = "done" =>
        /\ NamesOf(results.successful) = InputOrder(TRUE)
        /\ NamesOf(results.failed) = InputOrder(FALSE)

(***************************************************************************)
(* Properties of the format dispatch                                       *)
(***************************************************************************)
Rejected ==
    /\ parsed.raised
    /\ parsed.error = Unsupported(file_path.suffix)
    /\ parsed.extractor = "none"
    /\ extractions = <<>>

C14_HistoryIndependent ==
    rpc = "reference" =>
        /\ first_ranked = {ranked}
        /\ ranked = RankCandidates(reference.resumes,
                                   reference.job_description, reference.top_n)

\* the reference inputs ranked again on a fitted vectorizer after a ranking
\* of other inputs that refitted it, with two candidates to order
C14_Witness ==
    /\ rpc = "reference"
    /\ between > 0
    /\ vectorizer.fitted
    /\ Len(ranked) = 2
    /\ ranked[1].overall_score > ranked[2].overall_score
    /\ ranked[1].resume_data = reference.resumes[2]

(***************************************************************************)
(* Properties of the total parsed_experience                                      *)
(***************************************************************************)
\* every entry the extraction can hold, at any time of the clock
AllEntries == { WithDuration(exp, now) : exp \in DatedEntries, now \in 0..1 }

DurationCount(experiences, duration) ==
    Len(SelectSeq(experiences, LAMBDA exp : exp.duration = duration))

\* the two lists carry the same duration strings, each as often
SameDurations(a, b) ==
    /\ Len(a) = Len(b)
    /\ \A exp \in RangeOf(a) \cup RangeOf(b) :
           DurationCount(a, exp.duration) = DurationCount(b, exp.duration)

\* C17: total_experience_years is never negative, and every list of entries
\* with the same duration strings, in whatever order, with whatever dates,
\* positions and descriptions, extracted at whatever time, has the same total
C17_DurationsOnly ==
    xpc = "parsed" =>
        /\ total_experience >= 0
        /\ \A other \in [1..Len(parsed_experience) -> AllEntries] :
               SameDurations(other, parsed_experience)
                   => CalculateTotalExperience(other) = total_experience

\* two entries, one of them ending before it starts, with a positive total
\* that a list in another order, with an entry of other dates and another
\* description, has as well
C17_Witness ==
    /\ xpc = "parsed"
    /\ Len(parsed_experience) = 2
    /\ total_experience = 5 * Tenth
    /\ \E i \in 1..2 : parsed_experience[i].duration = "-2 year"
    /\ \E other \in [1..2 -> AllEntries] :
           /\ SameDurations(other, parsed_experience)
           /\ other[1].duration # parsed_experience[1].duration
           /\ \E i \in 1..2 :
                  /\ other[i] \notin RangeOf(parsed_experience)
                  /\ other[i].description # <<>>

(***************************************************************************)
(* Properties of the application session                                   *)
(***************************************************************************)
\* C20 as stated: whatever uploads, removals, edits of the job description,
\* matches and clearings have happened, the stored ranked_candidates is
\* empty or is the ranking of the current parsed_resumes against the
\* current job description.
C20_Original ==
    \/ ranked_candidates = <<>>
    \/ ranked_candidates =
           RankCandidates(parsed_resumes, session_job_description, {})

(***************************************************************************)
(* Properties of the section splitter                                      *)
(***************************************************************************)
DocLines == SplitLines(document.text)

IsHeader(line) == SectionOf(line) # ""

IsBlank(line) == Strip(line) = <<>>

\* the lines of the body of a section, none when the section is absent
BodyLines(n) ==
    IF n \in DOMAIN sections THEN SplitLines(sections[n]) ELSE <<>>

\* the non-blank lines before the first header line, in order
Leading ==
    LET headers == { i \in 1..Len(DocLines) : IsHeader(DocLines[i]) }
        first == IF headers = {} THEN Len(DocLines) + 1
                 ELSE CHOOSE i \in headers : \A h \in headers : i <= h
    IN  SelectSeq(SubSeq(DocLines, 1, first - 1), LAMBDA l : ~IsBlank(l))

NoHeaderInBody ==
    \A n \in DOMAIN sections :
        \A i \in 1..Len(BodyLines(n)) : ~IsHeader(BodyLines(n)[i])

\* C23 as stated: no header line lies in a body, the non-blank lines before
\* the first header are the body of 'unknown', and a text without a header
\* yields the single section 'unknown' with all its non-blank lines in order.
C23_Original ==
    (tpc = "parsed" /\ document.kind = "resume") =>
        /\ NoHeaderInBody
        /\ Leading # <<>> => BodyLines("unknown") = Leading
        /\ (\A i \in 1..Len(DocLines) : ~IsHeader(DocLines[i])) =>
               /\ DOMAIN sections = {"unknown"}
               /\ BodyLines("unknown") = Leading

\* C23, amended: no header line lies in a body; the non-blank lines before the
\* first header are the body of 'unknown', which is absent when there is no
\* such line; a text without a header that has a non-blank line yields the
\* single section 'unknown' with all its non-blank lines in order, and a text
\* without a header and without a non-blank line yields no section at all.
C23_Sections ==
    (tpc = "parsed" /\ document.kind = "resume") =>
        /\ NoHeaderInBody
        /\ IF Leading = <<>> THEN "unknown" \notin DOMAIN sections
           ELSE BodyLines("unknown") = Leading
        /\ (\A i \in 1..Len(DocLines) : ~IsHeader(DocLines[i])) =>
               DOMAIN sections = (IF Leading = <<>> THEN {} ELSE {"unknown"})

\* a resume with a line before its first header, a blank line and a body
C23_Witness ==
    /\ tpc = "parsed"
    /\ {"unknown", "experience"} \subseteq DOMAIN sections
    /\ \E i \in 1..Len(DocLines) : IsBlank(DocLines[i])
    /\ \E i \in 1..Len(DocLines) : SectionOf(DocLines[i]) = "experience"

\* the section a line belongs to: the one opened by the nearest header line
\* before it, 'unknown' when there is none
Owner(i) ==
    LET headers == { h \in 1..(i - 1) : IsHeader(DocLines[h]) }
    IN  IF headers = {} THEN "unknown"
        ELSE SectionOf(DocLines[CHOOSE h \in headers : \A g \in headers : g <= h])

\* the non-blank lines that are not headers and belong to section n, in order
Owned(n) ==
    LET idx == SelectSeq([i \in 1..Len(DocLines) |-> i],
                         LAMBDA i : /\ ~IsBlank(DocLines[i])
                                    /\ ~IsHeader(DocLines[i])
                                    /\ Owner(i) = n)
    IN  [k \in 1..Len(idx) |-> DocLines[idx[k]]]

\* C24 as stated: the body of every section holds, in order, exactly the
\* non-blank lines that are not headers and follow a header of that section
\* (for 'unknown': precede every header), also when a header occurs twice.
C24_Original ==
    (tpc = "parsed" /\ document.kind = "resume") =>
        \A n \in {"unknown"} \cup { SectionPatterns[i].name :
                                      i \in 1..Len(SectionPatterns) } :
            BodyLines(n) = Owned(n)

(***************************************************************************)
(* Properties of the title and name extraction                             *)
(***************************************************************************)
\* the first five lines of the text, stripped
TopLines ==
    LET top == SubSeq(DocLines, 1, Min2(5, Len(DocLines)))
    IN  [i \in 1..Len(top) |-> Strip(top[i])]

\* a line _extract_job_title looks at: not empty and shorter than 100
Eligible(line) == line # <<>> /\ StrLen(line) < 100

HasIndicator(line) ==
    Eligible(line) /\ \E k \in TitleIndicators : InStr(k, LowerStr(line))

Substantial(line) ==
    Eligible(line) /\ StrWords(line) <= 10 /\ StrLen(line) > 10

\* the first of the lines with the property, <<>> when there is none
FirstWith(P(_), lines) ==
    LET found == { i \in 1..Len(lines) : P(lines[i]) }
    IN  IF found = {} THEN <<>>
        ELSE lines[CHOOSE i \in found : \A h \in found : i <= h]

\* C28 as stated: the title is the first of the first five lines with a title
\* indicator; only when no such line exists is it the first line of at most
\* ten words and more than ten characters; otherwise 'Position Not Specified'.
C28_Original ==
    (tpc = "parsed" /\ document.kind = "posting") =>
        job_title =
            (IF \E i \in 1..Len(TopLines) : HasIndicator(TopLines[i])
             THEN FirstWith(HasIndicator, TopLines)
             ELSE IF \E i \in 1..Len(TopLines) : Substantial(TopLines[i])
             THEN FirstWith(Substantial, TopLines)
             ELSE <<"Position Not Specified">>)

\* C29 as stated: the name is sought among the first five non-empty lines of
\* the text, blank lines not counting towards the five, and is 'Name Not
\* Found' when none of them qualifies.
C29_Original ==
    (tpc = "parsed" /\ document.kind = "resume") =>
        LET filled == SelectSeq(DocLines, LAMBDA l : ~IsBlank(l))
        IN  contact_name = NameFrom(SubSeq(filled, 1, Min2(5, Len(filled))))

(***************************************************************************)
(* Properties of the experience extraction                                 *)
(***************************************************************************)
\* q occurs in s as a run of consecutive pieces
Occurs(q, s) ==
    \E i \in 0..(Len(s) - Len(q)) : SubSeq(s, i + 1, i + Len(q)) = q

\* C25 as stated: an entry whose start date, of whichever pattern, is followed
\* by a present marker gets the marker as end_date and 'Ongoing' as duration.
C25_Original ==
    (tpc = "parsed" /\ document.kind = "experience") =>
        \A start \in StartDates : \A marker \in PresentMarkers :
            Occurs(start \o <<" ", "-", " ", marker>>, document.text) =>
                \A i \in 1..Len(work_entries) :
                    /\ work_entries[i].end_date = <<marker>>
                    /\ work_entries[i].duration = "Ongoing"

\* the years an entry spans by its dates, for an entry whose duration is a
\* number of whole years; 0 for 'Ongoing' and for the empty duration
YearsSpanned(exp) ==
    IF \E t \in DurationYears : t[1] = exp.duration
    THEN FirstYear(exp.end_date) - FirstYear(exp.start_date)
    ELSE 0

RECURSIVE SumOfSpans(_)
SumOfSpans(entries) ==
    IF entries = <<>> THEN 0
    ELSE YearsSpanned(entries[1]) + SumOfSpans(Tail(entries))

\* C26 as stated: total_experience_years is the sum, over the entries whose
\* duration is a number of whole years, of end year minus start year; the
\* entries with duration 'Ongoing' or '' add nothing.
C26_Original ==
    xpc = "parsed" => total_experience = SumOfSpans(parsed_experience) * Tenth

(***************************************************************************)
(* Properties of the vocabularies shared by the two parsers                *)
(***************************************************************************)
\* C30 as stated: every non-empty degree string of a resume education entry
\* is mapped by the education scorer to a level from 1 to 5, never to 0.
C30_Original ==
    spc = "scored" =>
        \A i \in 1..Len(resume.education) :
            resume.education[i].degree # "" =>
                ResumeLevel([education |-> <<resume.education[i]>>]) \in 1..5

\* the resume parser extracts the skill from a text that names it
Extractable(skill) ==
    \E c \in DOMAIN ResumeExtractSkills(<<skill>>) :
        \E k \in RangeOf(ResumeExtractSkills(<<skill>>)[c]) :
            SkillLower(k) = SkillLower(skill)

\* C27 as stated: every skill the job parser puts among the required or the
\* preferred skills of a posting is, case-folded, a skill that the resume
\* parser extracts from a text that names it.
C27_Original ==
    (tpc = "parsed" /\ document.kind = "posting") =>
        \A skill \in RangeOf(job_skills[1]) \cup RangeOf(job_skills[2]) :
            Extractable(skill)

====
